---- MODULE Spec2Model ----
(***************************************************************************)
(* A model of agent-rule-sync: the rule file synchronizer (writeRules and  *)
(* cleanupOldRules of rules-manager.ts) and the external agent invoker     *)
(* (analyzeCodebase of analyzer.ts).                                       *)
(*                                                                         *)
(* Strings are sequences of atoms.  An atom is one character, or a chunk   *)
(* of a fixed literal of the source that no user string can spell          *)
(* ("description:", "## Rule Categories"); a chunk neither starts nor ends *)
(* with whitespace and holds no whitespace but single spaces, so that      *)
(* trim() and /\s+/ leave it as it is.  All other whitespace is one atom   *)
(* per character, and trimming, /\s+/ and toLowerCase are computed on the  *)
(* sequence as the code computes them on the string.                       *)
(***************************************************************************)
EXTENDS Integers, Sequences, FiniteSets, TLC

VARIABLES
    caseSensitive,  \* whether the file system tells "A.mdc" from "a.mdc"
    dirExists,      \* fs.existsSync(rulesDir)
    dir,            \* the directory, in fs.readdirSync order: <<[name, content]>>
    clock,          \* the value new Date() last returned
    pc,             \* per writeRules call: where the call stands
    args,           \* per call: [analysisData, dryRun]
    existingRules,  \* per call: the snapshot readExistingRules returned
    idx,            \* per call: position in Object.entries(analysisData)
    result,         \* per call: the RulesManagerResult being built / returned
    existingFiles,  \* per call: cleanupOldRules' listing still to be visited
    removed,        \* per call: cleanupOldRules' removed list
    hist,           \* per call: what the call saw and did (history only)
    prompt,         \* the prompt argument the cursor-agent was spawned with
    child,          \* the spawned cursor-agent: "none", "running", "failed", "closed"
    killed,         \* childProcess.kill() was called
    errorEmitted,   \* the child's 'error' event was delivered
    pendingOut,     \* what the child has still to print on stdout
    pendingErr,     \* what the child has still to print on stderr
    stdout,         \* analyzeCodebase's accumulated stdout
    stderr,         \* analyzeCodebase's accumulated stderr
    timeoutId,      \* the timer: "none", "armed", "fired", "cleared"
    promise,        \* the promise analyzeCodebase returned
    exitCode,       \* the code the 'close' event carried, "none" before it
    stdoutAtTimeout, \* stdout when the timer fired (history only)
    cliPc,          \* the CLI's root action: "idle", "check", "generate", "ended"
    processExit,    \* the code process.exit was called with, "none" if it was not
    config,         \* the GenerateRulesConfig the CLI built: [dryRun]
    genPc,          \* generateRules: "idle", "check", "analyze", "write", "returned"
    agentCheck,     \* what generateRules' checkCursorAgent resolved with
    genResult,      \* the RulesManagerResult generateRules returned
    genHist,        \* what generateRules saw: the directory at the call, the
                    \* AnalysisResult it awaited (history only)
    contents,       \* a direct call of needsUpdate: [existingContent, newContent]
    compared,       \* what needsUpdate returned for the two contents, in both
                    \* orders and for each with itself
    classified,     \* how a file of existingContent is classified against newContent
    callArgs,       \* a direct call of the pure functions: [categoryName, category]
    returnedMdc,    \* what convertToMDC(categoryName, category) returned
    returnedFilenames \* what the calls of generateFilename(categoryName) returned

syncVars == <<caseSensitive, dirExists, dir, clock, pc, args, existingRules,
              idx, result, existingFiles, removed, hist>>

invokeVars == <<prompt, child, killed, errorEmitted, pendingOut, pendingErr, stdout,
                stderr, timeoutId, promise, exitCode, stdoutAtTimeout>>

pureVars == <<callArgs, returnedMdc, returnedFilenames>>

compareVars == <<contents, compared, classified>>

genVars == <<cliPc, processExit, config, genPc, agentCheck, genResult, genHist>>

vars == <<syncVars, invokeVars, pureVars, genVars, compareVars>>

-----------------------------------------------------------------------------
(* Bounds *)

\* writeRules calls made one after the other against the same directory
MaxPasses == 2
\* largest value the clock takes
MaxClock == 1

Passes == 1..MaxPasses

\* direct calls of generateFilename on one key
MaxCalls == 2

-----------------------------------------------------------------------------
(* Strings *)

\* the characters JavaScript's \s and trim() treat as whitespace
WS == {" ", "\n", "\t"}

UpperChars == <<"A", "B", "C", "D", "E", "F", "G", "H", "I", "J", "K", "L", "M",
                "N", "O", "P", "Q", "R", "S", "T", "U", "V", "W", "X", "Y", "Z">>
LowerChars == <<"a", "b", "c", "d", "e", "f", "g", "h", "i", "j", "k", "l", "m",
                "n", "o", "p", "q", "r", "s", "t", "u", "v", "w", "x", "y", "z">>

LowerChar(c) ==
    IF \E i \in 1..Len(UpperChars) : UpperChars[i] = c
    THEN LowerChars[CHOOSE i \in 1..Len(UpperChars) : UpperChars[i] = c]
    ELSE c

\* String.prototype.toLowerCase
toLowerCase(s) == [i \in 1..Len(s) |-> LowerChar(s[i])]

\* String.prototype.endsWith
endsWith(s, suffix) ==
    /\ Len(s) >= Len(suffix)
    /\ SubSeq(s, Len(s) - Len(suffix) + 1, Len(s)) = suffix

\* the positions of s that hold no whitespace
NonWS(s) == {i \in 1..Len(s) : s[i] \notin WS}

\* String.prototype.trim
trim(s) ==
    LET nw == NonWS(s)
    IN IF nw = {} THEN <<>>
       ELSE SubSeq(s, CHOOSE i \in nw : \A j \in nw : i <= j,
                      CHOOSE i \in nw : \A j \in nw : i >= j)

\* s.replace(/\s+/g, r) for a one-character r: every maximal run of
\* whitespace becomes r
replaceWhitespaceRuns(s, r) ==
    LET kept == SelectSeq([i \in 1..Len(s) |-> i],
                          LAMBDA i : s[i] \notin WS \/ i = 1 \/ s[i - 1] \notin WS)
    IN [k \in 1..Len(kept) |-> IF s[kept[k]] \in WS THEN r ELSE s[kept[k]]]

Digits == <<"0", "1", "2", "3", "4", "5", "6", "7", "8", "9">>

\* a number interpolated into a template string
RECURSIVE NumStr(_)
NumStr(n) ==
    IF n < 10 THEN <<Digits[n + 1]>>
    ELSE NumStr(n \div 10) \o <<Digits[(n % 10) + 1]>>

\* a timestamp that does not tell two instants apart
toISOString_Constant(t) == <<"T", "0", "Z">>

\* Date.prototype.toISOString: one string per instant, free of whitespace
toISOString(t) == <<"T">> \o NumStr(t) \o <<"Z">>

\* the elements of a sequence
Range(s) == {s[i] : i \in 1..Len(s)}

-----------------------------------------------------------------------------
(* rules-manager.ts: the pure functions *)

MdcExt == <<".", "m", "d", "c">>
MdExt == <<".", "m", "d">>
TxtExt == <<".", "t", "x", "t">>

\* file.endsWith('.mdc') || file.endsWith('.md') || file.endsWith('.txt')
IsRuleFile(file) ==
    endsWith(file, MdcExt) \/ endsWith(file, MdExt) \/ endsWith(file, TxtExt)

\* the filename with each whitespace character replaced on its own
generateFilename_PerCharacter(categoryName) ==
    [i \in 1..Len(categoryName) |->
        IF categoryName[i] \in WS THEN "-" ELSE LowerChar(categoryName[i])] \o MdcExt

\* generateFilename
generateFilename(categoryName) ==
    replaceWhitespaceRuns(toLowerCase(categoryName), "-") \o MdcExt

\* needsUpdate's local normalize
normalize_NoTrim(s) == replaceWhitespaceRuns(s, " ")

normalize(s) == replaceWhitespaceRuns(trim(s), " ")

needsUpdate_Inverted(existingContent, newContent) ==
    normalize(existingContent) = normalize(newContent)

\* needsUpdate
needsUpdate(existingContent, newContent) ==
    normalize(existingContent) # normalize(newContent)

\* JSON.stringify of an array of strings (no character needing an escape)
RECURSIVE JoinQuoted(_)
JoinQuoted(globs) ==
    IF globs = <<>> THEN <<>>
    ELSE <<"\"">> \o Head(globs) \o <<"\"">>
         \o (IF Len(globs) > 1 THEN <<",">> ELSE <<>>)
         \o JoinQuoted(Tail(globs))

stringifyGlobs(globs) == <<"[">> \o JoinQuoted(globs) \o <<"]">>

\* the policy with the rule type tested before the explicit flag
alwaysApplyOf_RuleTypeFirst(categoryName, category) ==
    IF category.ruleType = "always" THEN "true"
    ELSE IF category.alwaysApply # "undefined" THEN category.alwaysApply
    ELSE IF categoryName = <<"b", "e", "s", "t", "P", "r", "a", "c", "t", "i", "c", "e", "s">>
            \/ categoryName = <<"c", "o", "n", "v", "e", "n", "t", "i", "o", "n", "s">>
         THEN "true" ELSE "false"

\* the alwaysApply policy of convertToMDC; "undefined" is an unset field
alwaysApplyOf(categoryName, category) ==
    IF category.alwaysApply # "undefined" THEN category.alwaysApply
    ELSE IF category.ruleType = "always" THEN "true"
    ELSE IF categoryName = <<"b", "e", "s", "t", "P", "r", "a", "c", "t", "i", "c", "e", "s">>
            \/ categoryName = <<"c", "o", "n", "v", "e", "n", "t", "i", "o", "n", "s">>
         THEN "true" ELSE "false"

RECURSIVE RenderExamples(_)
RenderExamples(examples) ==
    IF examples = <<>> THEN <<>>
    ELSE <<" ", " ", "-", " ">> \o Head(examples) \o <<"\n">>
         \o RenderExamples(Tail(examples))

RECURSIVE RenderRules(_)
RenderRules(rules) ==
    IF rules = <<>> THEN <<>>
    ELSE <<"- **">> \o Head(rules).name \o <<"**:", " ">>
         \o Head(rules).description \o <<"\n">>
         \o RenderExamples(Head(rules).examples)
         \o <<"\n">>
         \o RenderRules(Tail(rules))

\* convertToMDC.  An empty description stands for '' and for undefined alike
\* (category.description || category.title treats them the same), and so
\* does an empty globs or examples list.
convertToMDC(categoryName, category) ==
    <<"---", "\n">>
    \o <<"description:", " ">>
    \o (IF category.description # <<>> THEN category.description ELSE category.title)
    \o <<"\n">>
    \o (IF Len(category.globs) > 0
        THEN <<"globs:", " ">> \o stringifyGlobs(category.globs) \o <<"\n">>
        ELSE <<>>)
    \o <<"alwaysApply:", " ", alwaysApplyOf(categoryName, category), "\n">>
    \o <<"---", "\n", "\n">>
    \o RenderRules(category.rules)

isSkipped_NullOnly(entry) == ~entry.present

\* !category || !category.rules || category.rules.length === 0
isSkipped(entry) == ~entry.present \/ Len(entry.category.rules) = 0

RECURSIVE SummaryLines(_)
SummaryLines(analysisData) ==
    IF analysisData = <<>> THEN <<>>
    ELSE LET e == Head(analysisData)
             c == e.category
         IN (IF isSkipped(e) THEN <<>>
             ELSE <<"- [">> \o c.title \o <<"](./">>
                  \o generateFilename(e.key) \o <<") -", " ">>
                  \o (IF c.description # <<>> THEN c.description
                      ELSE <<"Rules for", " ">> \o c.title)
                  \o <<" ", "(">> \o NumStr(Len(c.rules)) \o <<" ", "rules)", "\n">>)
            \o SummaryLines(Tail(analysisData))

\* createSummary, with the instant new Date() returns as a parameter
createSummary(analysisData, now) ==
    <<"# Cursor Rules - Auto Generated", "\n", "\n">>
    \o <<"This directory contains automatically generated rules for this codebase.",
         "\n", "\n">>
    \o <<"## Rule Categories", "\n", "\n">>
    \o SummaryLines(analysisData)
    \o <<"\n", "---", "\n", "\n">>
    \o <<"Generated on:", " ">> \o toISOString(now) \o <<"\n">>
    \o <<"Generator: agent-rule-sync", "\n">>

summaryFilename == <<"R", "E", "A", "D", "M", "E", ".", "m", "d">>

-----------------------------------------------------------------------------
(* The file system the synchronizer works on *)

\* the key under which the file system stores a name
FsKey(name) == IF caseSensitive THEN name ELSE toLowerCase(name)

HasFile(d, name) == \E i \in 1..Len(d) : FsKey(d[i].name) = FsKey(name)

FileIndex(d, name) == CHOOSE i \in 1..Len(d) : FsKey(d[i].name) = FsKey(name)

InsertAt(d, k, e) == SubSeq(d, 1, k - 1) \o <<e>> \o SubSeq(d, k, Len(d))

RemoveAt(d, k) == SubSeq(d, 1, k - 1) \o SubSeq(d, k + 1, Len(d))

\* fs.writeFileSync: the directories that may result.  An existing file keeps
\* its name and place; a new one is listed before or after the others, as
\* the file system orders it.
writeFileSync(d, name, content) ==
    IF HasFile(d, name)
    THEN {[d EXCEPT ![FileIndex(d, name)].content = content]}
    ELSE {InsertAt(d, k, [name |-> name, content |-> content]) : k \in {1, Len(d) + 1}}

\* fs.unlinkSync of a file that exists
unlinkSync(d, name) == RemoveAt(d, FileIndex(d, name))

\* the names fs.readdirSync returns
readdirSync(d) == [i \in 1..Len(d) |-> d[i].name]

\* the message of the exception a file system call throws
FsErrors(syscall) == {<<"EACCES: permission denied, " \o syscall>>}

-----------------------------------------------------------------------------
(* The inputs: analysis data and prior directory content *)

Rule(name, description) == [name |-> name, description |-> description, examples |-> <<>>]

Category(title, description, rules) ==
    [title |-> title, description |-> description, rules |-> rules,
     globs |-> <<>>, alwaysApply |-> "undefined", ruleType |-> "undefined"]

\* one [key, value] pair of Object.entries(analysisData)
Entry(key, category) == [key |-> key, present |-> TRUE, category |-> category]

\* a key whose value is undefined
Absent(key) == [key |-> key, present |-> FALSE, category |-> Category(<<>>, <<>>, <<>>)]

CatX == Category(<<"T">>, <<"d">>, <<Rule(<<"n">>, <<"x">>)>>)
CatY == Category(<<"T">>, <<>>, <<Rule(<<"n">>, <<"y">>), Rule(<<"n">>, <<"y">>)>>)
\* CatX up to the length of a whitespace run
CatXSpaced == Category(<<"T">>, <<"d">>, <<Rule(<<"n">>, <<"x", " ", " ">>)>>)
CatEmpty == Category(<<"T">>, <<"d">>, <<>>)

KeyA == <<"a">>
KeyUpperA == <<"A">>
KeyB == <<"b">>

DataA == <<Entry(KeyA, CatX)>>

AnalysisDataSet ==
    { <<>>,
      DataA,
      <<Entry(KeyB, CatEmpty), Entry(KeyA, CatY)>>,
      <<Entry(KeyA, CatX), Entry(KeyUpperA, CatY)>>,
      <<Entry(KeyA, CatEmpty), Entry(KeyUpperA, CatY)>>,
      <<Absent(KeyB), Entry(KeyA, CatX)>>,
      <<Entry(KeyA, CatX), Entry(KeyB, CatY)>> }

\* the five keys the prompt asks the agent for
KeyCodePatterns == <<"c", "o", "d", "e", "P", "a", "t", "t", "e", "r", "n", "s">>
KeyFrameworks == <<"f", "r", "a", "m", "e", "w", "o", "r", "k", "s">>
KeyStructure == <<"s", "t", "r", "u", "c", "t", "u", "r", "e">>
KeyConventions == <<"c", "o", "n", "v", "e", "n", "t", "i", "o", "n", "s">>
KeyBestPractices == <<"b", "e", "s", "t", "P", "r", "a", "c", "t", "i", "c", "e", "s">>

\* category keys for direct calls: the conventional ones and keys with
\* capitals, whitespace runs, leading whitespace, a hyphen, no character
PureKeys ==
    { KeyCodePatterns, KeyFrameworks, KeyStructure, KeyConventions,
      KeyBestPractices, KeyA,
      <<"B", "e", "s", "t", " ", "P", "r", "a", "c", "t", "i", "c", "e", "s">>,
      <<"b", "e", "s", "t", "p", "r", "a", "c", "t", "i", "c", "e", "s">>,
      <<"M", "y", " ", "\t", "\n", "R", "u", "l", "e", "s", " ", " ", "x">>,
      <<" ", "A", "-", "b", " ">>,
      <<>> }

\* the values a category's alwaysApply and ruleType fields may hold
AlwaysApplyValues == {"undefined", "true", "false", "null"}
RuleTypes == {"undefined", "always", "auto-attached", "agent-requested", "manual"}

PureCategories ==
    { [CatX EXCEPT !.alwaysApply = a, !.ruleType = t] :
         a \in AlwaysApplyValues, t \in RuleTypes }

File(name, content) == [name |-> name, content |-> content]

Junk == <<"j", "u", "n", "k", "\n">>

NameA == <<"a", ".", "m", "d", "c">>
NameUpperA == <<"A", ".", "m", "d", "c">>
NameB == <<"b", ".", "m", "d", "c">>
NameReadmeLower == <<"r", "e", "a", "d", "m", "e", ".", "m", "d">>
NameOldTxt == <<"o", "l", "d", ".", "t", "x", "t">>
NameNotesJson == <<"n", "o", "t", "e", "s", ".", "j", "s", "o", "n">>

\* prior directories: <<>> with exists = FALSE is a missing directory
InitialDirs ==
    { [exists |-> FALSE, dir |-> <<>>],
      [exists |-> TRUE, dir |-> <<>>],
      [exists |-> TRUE, dir |-> <<File(NameA, convertToMDC(KeyA, CatX))>>],
      [exists |-> TRUE, dir |-> <<File(NameUpperA, convertToMDC(KeyA, CatX)),
                                  File(NameReadmeLower, Junk)>>],
      [exists |-> TRUE, dir |-> <<File(NameA, convertToMDC(KeyA, CatXSpaced)),
                                  File(summaryFilename, createSummary(DataA, 0)),
                                  File(NameOldTxt, Junk),
                                  File(NameNotesJson, Junk)>>],
      [exists |-> TRUE, dir |-> <<File(NameUpperA, Junk),
                                  File(NameA, convertToMDC(KeyA, CatY))>>] }

\* no two entries of a directory share a file-system key
WellFormedDir(d) ==
    \A i, j \in 1..Len(d) : FsKey(d[i].name) = FsKey(d[j].name) => i = j

-----------------------------------------------------------------------------
(* writeRules, one file-system call per step *)

NoResult == [success |-> TRUE, created |-> <<>>, updated |-> <<>>,
             unchanged |-> <<>>, error |-> <<>>]

NoHist == [before |-> [exists |-> FALSE, dir |-> <<>>],
           written |-> <<>>, summaryAt |-> -1, thrown |-> <<>>,
           atCleanup |-> <<>>, keep |-> <<>>, after |-> <<>>]

SyncInit ==
    /\ caseSensitive \in BOOLEAN
    /\ \E d \in InitialDirs :
          /\ WellFormedDir(d.dir)
          /\ dirExists = d.exists
          /\ dir = d.dir
    /\ clock = 0
    /\ pc = [p \in Passes |-> "idle"]
    /\ args = [p \in Passes |-> [analysisData |-> <<>>, dryRun |-> FALSE]]
    /\ existingRules = [p \in Passes |-> <<>>]
    /\ idx = [p \in Passes |-> 0]
    /\ result = [p \in Passes |-> NoResult]
    /\ existingFiles = [p \in Passes |-> <<>>]
    /\ removed = [p \in Passes |-> <<>>]
    /\ hist = [p \in Passes |-> NoHist]

catchResult_KeepsLists(r, message) == [r EXCEPT !.success = FALSE, !.error = message]

catchResult_UnknownError(r, message) ==
    [success |-> FALSE, created |-> <<>>, updated |-> <<>>,
     unchanged |-> <<>>, error |-> <<"Unknown error">>]

\* the catch block of writeRules: a fresh result object carrying the message
catchResult(r, message) ==
    [success |-> FALSE, created |-> <<>>, updated |-> <<>>,
     unchanged |-> <<>>, error |-> message]

\* a catch block after which the clean-up still runs
Catch_ThenCleanup(p, message) ==
    /\ result' = [result EXCEPT ![p] = catchResult(result[p], message)]
    /\ pc' = [pc EXCEPT ![p] = IF pc[p] = "loop" THEN "cleanup" ELSE "done"]
    /\ hist' = [hist EXCEPT ![p].thrown = message]
    /\ existingRules' = [existingRules EXCEPT ![p] = <<>>]
    /\ existingFiles' = [existingFiles EXCEPT ![p] = <<>>]

\* control reaches the catch block with an exception of the given message
Catch(p, message) ==
    /\ result' = [result EXCEPT ![p] = catchResult(result[p], message)]
    /\ pc' = [pc EXCEPT ![p] = "done"]
    /\ hist' = [hist EXCEPT ![p].thrown = message]
    /\ existingRules' = [existingRules EXCEPT ![p] = <<>>]
    /\ existingFiles' = [existingFiles EXCEPT ![p] = <<>>]

\* the data a call may be given: any for the first call; a later call
\* re-synchronizes the data of the call before it
DataFor(p) == IF p = 1 THEN AnalysisDataSet ELSE {args[p - 1].analysisData}

\* writeRules(analysisData, rulesDir, dryRun): the result object is constructed
writeRulesCallWith(p, analysisData, dryRun) ==
    /\ pc[p] = "idle"
    /\ \A q \in Passes : q < p => pc[q] = "done"
    /\ args' = [args EXCEPT ![p] = [analysisData |-> analysisData, dryRun |-> dryRun]]
    /\ result' = [result EXCEPT ![p] = NoResult]
    /\ pc' = [pc EXCEPT ![p] = "ensure"]
    /\ hist' = [hist EXCEPT ![p].before = [exists |-> dirExists, dir |-> dir]]
    /\ UNCHANGED <<caseSensitive, dirExists, dir, clock, existingRules, idx,
                   existingFiles, removed>>

\* a call of writeRules with any data and either mode
writeRulesCall(p) ==
    \E data \in DataFor(p), dryRun \in BOOLEAN : writeRulesCallWith(p, data, dryRun)

\* if (!dryRun) ensureRulesDirectory(rulesDir)
ensureRulesDirectory(p) ==
    /\ pc[p] = "ensure"
    /\ dirExists' = (dirExists \/ ~args[p].dryRun)
    /\ pc' = [pc EXCEPT ![p] = "read"]
    /\ UNCHANGED <<caseSensitive, dir, clock, args, existingRules, idx, result,
                   existingFiles, removed, hist>>

\* fs.mkdirSync throws
mkdirThrows(p) ==
    /\ pc[p] = "ensure"
    /\ ~args[p].dryRun /\ ~dirExists
    /\ \E message \in FsErrors("mkdir") : Catch(p, message)
    /\ UNCHANGED <<caseSensitive, dirExists, dir, clock, args, idx,
                   removed>>

\* what readExistingRules returns: the rule files, in directory order
ruleFilesOf(exists, d) ==
    IF exists THEN SelectSeq(d, LAMBDA f : IsRuleFile(f.name)) ELSE <<>>

readExistingRules(p) ==
    /\ pc[p] = "read"
    /\ existingRules' = [existingRules EXCEPT ![p] = ruleFilesOf(dirExists, dir)]
    /\ idx' = [idx EXCEPT ![p] = 1]
    /\ pc' = [pc EXCEPT ![p] = "loop"]
    /\ UNCHANGED <<caseSensitive, dirExists, dir, clock, args, result,
                   existingFiles, removed, hist>>

\* fs.readdirSync or fs.readFileSync throws
readThrows(p) ==
    /\ pc[p] = "read"
    /\ dirExists
    /\ \E message \in FsErrors("scandir") : Catch(p, message)
    /\ UNCHANGED <<caseSensitive, dirExists, dir, clock, args, idx,
                   removed>>

\* existingRules.find((r) => r.filename.toLowerCase() === filename.toLowerCase())
Matches(rules, filename) ==
    {i \in 1..Len(rules) : toLowerCase(rules[i].name) = toLowerCase(filename)}

\* find returning the last match
FindExisting_Last(rules, filename) ==
    LET m == Matches(rules, filename)
    IN rules[CHOOSE i \in m : \A j \in m : i >= j]

FindExisting(rules, filename) ==
    LET m == Matches(rules, filename)
    IN rules[CHOOSE i \in m : \A j \in m : i <= j]

\* the classification with its two outer branches exchanged
classify_BranchesSwapped(rules, filename, content) ==
    IF Matches(rules, filename) # {} THEN "created" ELSE "updated"

\* how a category file is classified against the snapshot
classify(rules, filename, content) ==
    IF Matches(rules, filename) # {}
    THEN IF needsUpdate(FindExisting(rules, filename).content, content)
         THEN "updated" ELSE "unchanged"
    ELSE "created"

\* how the summary is classified against the snapshot
classifySummary(rules, unchanged, summary) ==
    IF Matches(rules, summaryFilename) = {} THEN "created"
    ELSE IF needsUpdate(FindExisting(rules, summaryFilename).content, summary)
         THEN "updated"
    ELSE IF summaryFilename \notin Range(unchanged) THEN "unchanged"
    ELSE "none"

\* a push that lists an updated file as unchanged too
Push_UpdatedTwice(r, list, filename) ==
    CASE list = "created" -> [r EXCEPT !.created = Append(@, filename)]
      [] list = "updated" -> [r EXCEPT !.updated = Append(@, filename),
                                       !.unchanged = Append(@, filename)]
      [] list = "unchanged" -> [r EXCEPT !.unchanged = Append(@, filename)]
      [] OTHER -> r

\* result.<list>.push(filename)
Push(r, list, filename) ==
    CASE list = "created" -> [r EXCEPT !.created = Append(@, filename)]
      [] list = "updated" -> [r EXCEPT !.updated = Append(@, filename)]
      [] list = "unchanged" -> [r EXCEPT !.unchanged = Append(@, filename)]
      [] OTHER -> r

\* the write under "if (!dryRun)" and the push that follows it
WriteAndPush(p, list, filename, content) ==
    /\ IF list \in {"created", "updated"} /\ ~args[p].dryRun
       THEN /\ dirExists
            /\ dir' \in writeFileSync(dir, filename, content)
            /\ hist' = [hist EXCEPT ![p].written =
                           Append(@, [name |-> filename, content |-> content])]
       ELSE UNCHANGED <<dir, hist>>
    /\ result' = [result EXCEPT ![p] = Push(@, list, filename)]

CurrentEntry(p) == args[p].analysisData[idx[p]]

\* one iteration of the loop over Object.entries(analysisData)
writeRulesCategory(p) ==
    /\ pc[p] = "loop"
    /\ idx[p] <= Len(args[p].analysisData)
    /\ LET e == CurrentEntry(p)
           filename == generateFilename(e.key)
           mdc == convertToMDC(e.key, e.category)
       IN IF isSkipped(e)
          THEN UNCHANGED <<dir, hist, result>>
          ELSE WriteAndPush(p, classify(existingRules[p], filename, mdc), filename, mdc)
    /\ idx' = [idx EXCEPT ![p] = @ + 1]
    /\ UNCHANGED <<caseSensitive, dirExists, clock, pc, args, existingRules,
                   existingFiles, removed>>

\* fs.writeFileSync of a category file throws
writeThrows(p) ==
    /\ pc[p] = "loop"
    /\ idx[p] <= Len(args[p].analysisData)
    /\ ~args[p].dryRun
    /\ LET e == CurrentEntry(p)
       IN /\ ~isSkipped(e)
          /\ classify(existingRules[p], generateFilename(e.key),
                      convertToMDC(e.key, e.category)) # "unchanged"
    /\ \E message \in FsErrors("open") : Catch(p, message)
    /\ UNCHANGED <<caseSensitive, dirExists, dir, clock, args, idx,
                   removed>>

\* the summary file, after the loop; new Date() is read here
writeRulesSummary(p) ==
    /\ pc[p] = "loop"
    /\ idx[p] > Len(args[p].analysisData)
    /\ \E now \in clock..MaxClock :
          LET summary == createSummary(args[p].analysisData, now)
              list == classifySummary(existingRules[p], result[p].unchanged, summary)
          IN /\ clock' = now
             /\ IF list \in {"created", "updated"} /\ ~args[p].dryRun
                THEN /\ dirExists
                     /\ dir' \in writeFileSync(dir, summaryFilename, summary)
                     /\ hist' = [hist EXCEPT
                                   ![p].written = Append(@, [name |-> summaryFilename,
                                                             content |-> summary]),
                                   ![p].summaryAt = now]
                ELSE /\ dir' = dir
                     /\ hist' = [hist EXCEPT ![p].summaryAt = now]
             /\ result' = [result EXCEPT ![p] = Push(@, list, summaryFilename)]
    /\ pc' = [pc EXCEPT ![p] = "cleanup"]
    /\ UNCHANGED <<caseSensitive, dirExists, args, existingRules, idx,
                   existingFiles, removed>>

\* fs.writeFileSync of the summary throws
summaryThrows(p) ==
    /\ pc[p] = "loop"
    /\ idx[p] > Len(args[p].analysisData)
    /\ ~args[p].dryRun
    /\ \E now \in clock..MaxClock :
          /\ clock' = now
          /\ classifySummary(existingRules[p], result[p].unchanged,
                             createSummary(args[p].analysisData, now))
                \in {"created", "updated"}
    /\ \E message \in FsErrors("open") : Catch(p, message)
    /\ UNCHANGED <<caseSensitive, dirExists, dir, args, idx,
                   removed>>

\* [...result.created, ...result.updated, ...result.unchanged]
keepFiles_WithoutUnchanged(r) == r.created \o r.updated

keepFiles(r) == r.created \o r.updated \o r.unchanged

cleanupDryRun_Default(p) == FALSE

\* the dryRun argument writeRules hands to cleanupOldRules
cleanupDryRun(p) == args[p].dryRun

isOldRule_IgnoresKeep(file, keep) == IsRuleFile(file)

isOldRule_AnyExtension(file, keep) ==
    toLowerCase(file) \notin {toLowerCase(k) : k \in Range(keep)}

\* !keepFilesSet.has(file.toLowerCase()) && (file.endsWith('.mdc') || ...)
isOldRule(file, keep) ==
    /\ toLowerCase(file) \notin {toLowerCase(k) : k \in Range(keep)}
    /\ IsRuleFile(file)

\* cleanupOldRules up to its listing of the directory
cleanupOldRules(p) ==
    /\ pc[p] = "cleanup"
    /\ existingFiles' = [existingFiles EXCEPT ![p] =
                            IF dirExists THEN readdirSync(dir) ELSE <<>>]
    /\ removed' = [removed EXCEPT ![p] = <<>>]
    /\ hist' = [hist EXCEPT ![p].atCleanup = dir, ![p].keep = keepFiles(result[p])]
    /\ pc' = [pc EXCEPT ![p] = "unlink"]
    /\ UNCHANGED <<caseSensitive, dirExists, dir, clock, args, existingRules, idx,
                   result>>

\* fs.readdirSync throws in cleanupOldRules
cleanupThrows(p) ==
    /\ pc[p] = "cleanup"
    /\ dirExists
    /\ \E message \in FsErrors("scandir") : Catch(p, message)
    /\ UNCHANGED <<caseSensitive, dirExists, dir, clock, args, idx,
                   removed>>

\* one iteration of cleanupOldRules' loop over the listing
cleanupVisit(p) ==
    /\ pc[p] = "unlink"
    /\ existingFiles[p] # <<>>
    /\ LET file == Head(existingFiles[p])
       IN IF isOldRule(file, hist[p].keep)
          THEN /\ IF cleanupDryRun(p)
                  THEN dir' = dir
                  ELSE /\ HasFile(dir, file)
                       /\ dir' = unlinkSync(dir, file)
               /\ removed' = [removed EXCEPT ![p] = Append(@, file)]
          ELSE UNCHANGED <<dir, removed>>
    /\ existingFiles' = [existingFiles EXCEPT ![p] = Tail(@)]
    /\ UNCHANGED <<caseSensitive, dirExists, clock, pc, args, existingRules, idx,
                   result, hist>>

\* fs.unlinkSync throws
unlinkThrows(p) ==
    /\ pc[p] = "unlink"
    /\ existingFiles[p] # <<>>
    /\ isOldRule(Head(existingFiles[p]), hist[p].keep)
    /\ ~cleanupDryRun(p)
    /\ \E message \in FsErrors("unlink") : Catch(p, message)
    /\ UNCHANGED <<caseSensitive, dirExists, dir, clock, args, idx,
                   removed>>

\* return result
writeRulesReturn(p) ==
    /\ pc[p] = "unlink"
    /\ existingFiles[p] = <<>>
    /\ pc' = [pc EXCEPT ![p] = "done"]
    /\ existingRules' = [existingRules EXCEPT ![p] = <<>>]
    /\ hist' = [hist EXCEPT ![p].after = dir]
    /\ UNCHANGED <<caseSensitive, dirExists, dir, clock, args, idx,
                   result, existingFiles, removed>>

SyncNext ==
    \E p \in Passes :
        \/ writeRulesCall(p) /\ UNCHANGED <<invokeVars, pureVars, genVars, compareVars>>
        \/ ensureRulesDirectory(p) /\ UNCHANGED <<invokeVars, pureVars, genVars, compareVars>>
        \/ mkdirThrows(p) /\ UNCHANGED <<invokeVars, pureVars, genVars, compareVars>>
        \/ readExistingRules(p) /\ UNCHANGED <<invokeVars, pureVars, genVars, compareVars>>
        \/ readThrows(p) /\ UNCHANGED <<invokeVars, pureVars, genVars, compareVars>>
        \/ writeRulesCategory(p) /\ UNCHANGED <<invokeVars, pureVars, genVars, compareVars>>
        \/ writeThrows(p) /\ UNCHANGED <<invokeVars, pureVars, genVars, compareVars>>
        \/ writeRulesSummary(p) /\ UNCHANGED <<invokeVars, pureVars, genVars, compareVars>>
        \/ summaryThrows(p) /\ UNCHANGED <<invokeVars, pureVars, genVars, compareVars>>
        \/ cleanupOldRules(p) /\ UNCHANGED <<invokeVars, pureVars, genVars, compareVars>>
        \/ cleanupThrows(p) /\ UNCHANGED <<invokeVars, pureVars, genVars, compareVars>>
        \/ cleanupVisit(p) /\ UNCHANGED <<invokeVars, pureVars, genVars, compareVars>>
        \/ unlinkThrows(p) /\ UNCHANGED <<invokeVars, pureVars, genVars, compareVars>>
        \/ writeRulesReturn(p) /\ UNCHANGED <<invokeVars, pureVars, genVars, compareVars>>

-----------------------------------------------------------------------------
(* Two writeRules passes of two processes against one directory *)

\* the two invocations
Procs == {1, 2}

\* what the two invocations synchronize
ConcurrentData == { DataA, <<Entry(KeyB, CatY)>> }

ConcurrentDirs ==
    { [exists |-> FALSE, dir |-> <<>>],
      [exists |-> TRUE, dir |-> <<File(NameA, convertToMDC(KeyA, CatX))>>] }

ConcurrentInit ==
    /\ caseSensitive = TRUE
    /\ \E d \in ConcurrentDirs : dirExists = d.exists /\ dir = d.dir
    /\ clock = 0
    /\ pc = [p \in Passes |-> "idle"]
    /\ args = [p \in Passes |-> [analysisData |-> <<>>, dryRun |-> FALSE]]
    /\ existingRules = [p \in Passes |-> <<>>]
    /\ idx = [p \in Passes |-> 0]
    /\ result = [p \in Passes |-> NoResult]
    /\ existingFiles = [p \in Passes |-> <<>>]
    /\ removed = [p \in Passes |-> <<>>]
    /\ hist = [p \in Passes |-> NoHist]

\* a process calls writeRules, not in dry-run mode, whatever the other
\* process is doing, with data other than the other's
writeRulesCallConcurrent(p) ==
    /\ pc[p] = "idle"
    /\ \E data \in ConcurrentData :
          /\ \A q \in Procs \ {p} : pc[q] # "idle" => args[q].analysisData # data
          /\ args' = [args EXCEPT ![p] = [analysisData |-> data, dryRun |-> FALSE]]
    /\ result' = [result EXCEPT ![p] = NoResult]
    /\ pc' = [pc EXCEPT ![p] = "ensure"]
    /\ hist' = [hist EXCEPT ![p].before = [exists |-> dirExists, dir |-> dir]]
    /\ UNCHANGED <<caseSensitive, dirExists, dir, clock, existingRules, idx,
                   existingFiles, removed>>

\* the file system calls of the two processes interleave, one call a step
ConcurrentNext ==
    \E p \in Procs :
        \/ writeRulesCallConcurrent(p) /\ UNCHANGED <<invokeVars, pureVars, genVars, compareVars>>
        \/ ensureRulesDirectory(p) /\ UNCHANGED <<invokeVars, pureVars, genVars, compareVars>>
        \/ mkdirThrows(p) /\ UNCHANGED <<invokeVars, pureVars, genVars, compareVars>>
        \/ readExistingRules(p) /\ UNCHANGED <<invokeVars, pureVars, genVars, compareVars>>
        \/ readThrows(p) /\ UNCHANGED <<invokeVars, pureVars, genVars, compareVars>>
        \/ writeRulesCategory(p) /\ UNCHANGED <<invokeVars, pureVars, genVars, compareVars>>
        \/ writeThrows(p) /\ UNCHANGED <<invokeVars, pureVars, genVars, compareVars>>
        \/ writeRulesSummary(p) /\ UNCHANGED <<invokeVars, pureVars, genVars, compareVars>>
        \/ summaryThrows(p) /\ UNCHANGED <<invokeVars, pureVars, genVars, compareVars>>
        \/ cleanupOldRules(p) /\ UNCHANGED <<invokeVars, pureVars, genVars, compareVars>>
        \/ cleanupThrows(p) /\ UNCHANGED <<invokeVars, pureVars, genVars, compareVars>>
        \/ cleanupVisit(p) /\ UNCHANGED <<invokeVars, pureVars, genVars, compareVars>>
        \/ unlinkThrows(p) /\ UNCHANGED <<invokeVars, pureVars, genVars, compareVars>>
        \/ writeRulesReturn(p) /\ UNCHANGED <<invokeVars, pureVars, genVars, compareVars>>

-----------------------------------------------------------------------------
(* analyzer.ts: extracting and parsing the agent's output *)

Quote == "\""
\* a quote escaped once (\") and twice (\\\") in the text of a JSON string
Quote1 == "\\\""
Quote2 == "\\\\\\\""

\* stdout.match(/\{[\s\S]*\}/): from the first "{" to the last "}" after it
jsonMatch(s) ==
    LET opens == {i \in 1..Len(s) : s[i] = "{"}
        first == CHOOSE i \in opens : \A j \in opens : i <= j
        closes == IF opens = {} THEN {} ELSE {j \in 1..Len(s) : s[j] = "}" /\ j > first}
    IN IF closes = {} THEN [found |-> FALSE, text |-> <<>>]
       ELSE [found |-> TRUE,
             text |-> SubSeq(s, first, CHOOSE j \in closes : \A k \in closes : j >= k)]

\* parsed JSON values: an object, a string or a number
JObject(members) == [t |-> "object", s |-> <<>>, members |-> members]
JString(str) == [t |-> "string", s |-> str, members |-> <<>>]
JNumber(str) == [t |-> "number", s |-> str, members |-> <<>>]

ParseFail(message) ==
    [ok |-> FALSE, val |-> JString(<<>>), next |-> 0, message |-> message]
ParseOk(val, next) == [ok |-> TRUE, val |-> val, next |-> next, message |-> <<>>]

UnexpectedToken == <<"Unexpected token">>
UnexpectedEnd == <<"Unexpected end of JSON input">>

\* the first position from i on that holds no whitespace
SkipWS(s, i) ==
    LET at == {j \in i..Len(s) : s[j] \notin WS}
    IN IF at = {} THEN Len(s) + 1 ELSE CHOOSE j \in at : \A k \in at : j <= k

\* what a JSON string's text stands for: one level of escaping is removed
Unescape(str) ==
    [i \in 1..Len(str) |-> IF str[i] = Quote1 THEN Quote
                           ELSE IF str[i] = Quote2 THEN Quote1 ELSE str[i]]

\* a string literal that starts at s[i] = Quote
ParseString(s, i) ==
    LET ends == {j \in (i + 1)..Len(s) : s[j] = Quote}
        j == CHOOSE e \in ends : \A k \in ends : e <= k
    IN IF ends = {} THEN ParseFail(UnexpectedEnd)
       ELSE IF \E k \in (i + 1)..(j - 1) : s[k] \in {"\n", "\t"}
            THEN ParseFail(UnexpectedToken)
       ELSE ParseOk(JString(Unescape(SubSeq(s, i + 1, j - 1))), j + 1)

\* a number that starts at s[i]: the run of digits from there
ParseNumber(s, i) ==
    LET stops == {j \in i..Len(s) : s[j] \notin Range(Digits)}
        end == IF stops = {} THEN Len(s) + 1
               ELSE CHOOSE j \in stops : \A k \in stops : j <= k
    IN ParseOk(JNumber(SubSeq(s, i, end - 1)), end)

RECURSIVE ParseValue(_, _)
RECURSIVE ParseMembers(_, _, _)

\* the members of an object from position i on, up to and including its "}"
ParseMembers(s, i, acc) ==
    LET k == SkipWS(s, i)
        key == ParseString(s, k)
        colon == SkipWS(s, key.next)
        val == ParseValue(s, colon + 1)
        after == SkipWS(s, val.next)
    IN IF k > Len(s) THEN ParseFail(UnexpectedEnd)
       ELSE IF s[k] # Quote THEN ParseFail(UnexpectedToken)
       ELSE IF ~key.ok THEN key
       ELSE IF colon > Len(s) THEN ParseFail(UnexpectedEnd)
       ELSE IF s[colon] # ":" THEN ParseFail(UnexpectedToken)
       ELSE IF ~val.ok THEN val
       ELSE IF after > Len(s) THEN ParseFail(UnexpectedEnd)
       ELSE IF s[after] = "}"
            THEN ParseOk(JObject(Append(acc, [k |-> key.val.s, v |-> val.val])), after + 1)
       ELSE IF s[after] = ","
            THEN ParseMembers(s, after + 1, Append(acc, [k |-> key.val.s, v |-> val.val]))
       ELSE ParseFail(UnexpectedToken)

\* the JSON value that starts at or after position i
ParseValue(s, i) ==
    LET j == SkipWS(s, i)
    IN IF j > Len(s) THEN ParseFail(UnexpectedEnd)
       ELSE IF s[j] = "{"
            THEN LET k == SkipWS(s, j + 1)
                 IN IF k <= Len(s) /\ s[k] = "}" THEN ParseOk(JObject(<<>>), k + 1)
                    ELSE ParseMembers(s, j + 1, <<>>)
       ELSE IF s[j] = Quote THEN ParseString(s, j)
       ELSE IF s[j] \in Range(Digits) THEN ParseNumber(s, j)
       ELSE ParseFail(UnexpectedToken)

\* JSON.parse: one value and nothing but whitespace after it; ok = FALSE is
\* a thrown SyntaxError with the message
JSONparse(text) ==
    LET r == ParseValue(text, 1)
    IN IF ~r.ok THEN r
       ELSE IF SkipWS(text, r.next) <= Len(text) THEN ParseFail(UnexpectedToken)
       ELSE r

ResultKey == <<"result">>

\* 'result' in parsed
HasResult(val) ==
    val.t = "object" /\ \E i \in 1..Len(val.members) : val.members[i].k = ResultKey

\* parsed.result: JSON.parse keeps the last of several members of one key
ResultOf(val) ==
    LET at == {i \in 1..Len(val.members) : val.members[i].k = ResultKey}
    IN val.members[CHOOSE i \in at : \A j \in at : i >= j].v

\* the AnalysisResult objects
Success(data, rawOutput) ==
    [success |-> TRUE, hasData |-> TRUE, data |-> data, error |-> <<>>,
     hasRawOutput |-> TRUE, rawOutput |-> rawOutput]
Failure(error, rawOutput) ==
    [success |-> FALSE, hasData |-> FALSE, data |-> JObject(<<>>), error |-> error,
     hasRawOutput |-> TRUE, rawOutput |-> rawOutput]
FailureWithoutOutput(error) ==
    [success |-> FALSE, hasData |-> FALSE, data |-> JObject(<<>>), error |-> error,
     hasRawOutput |-> FALSE, rawOutput |-> <<>>]

\* const { timeout = 300000 } = options
DefaultTimeout == 300000

TimeoutError == <<"Analysis timeout after", " ">> \o NumStr(DefaultTimeout \div 1000)
                   \o <<" ", "seconds">>
ExitError(code, err) == <<"cursor-agent exited with code", " ", code, ":", " ">> \o err
NoJsonError == <<"No JSON found in cursor-agent output">>
ParseError(message) == <<"Failed to parse cursor-agent output as JSON:", " ">> \o message
ExecuteError(message) == <<"Failed to execute cursor-agent:", " ">> \o message

\* the unwrap repeated for as long as the result is a wrapper
RECURSIVE unwrap_Recursive(_)
unwrap_Recursive(parsed) ==
    IF HasResult(parsed) /\ ResultOf(parsed).t = "string"
          /\ jsonMatch(ResultOf(parsed).s).found
    THEN LET inner == JSONparse(jsonMatch(ResultOf(parsed).s).text)
         IN IF inner.ok THEN unwrap_Recursive(inner.val) ELSE inner
    ELSE ParseOk(parsed, 0)

\* the wrapper's result, parsed in its turn when it is a string that holds
\* a "{" ... "}"; otherwise the parsed object itself
unwrap(parsed) ==
    IF HasResult(parsed) /\ ResultOf(parsed).t = "string"
          /\ jsonMatch(ResultOf(parsed).s).found
    THEN JSONparse(jsonMatch(ResultOf(parsed).s).text)
    ELSE ParseOk(parsed, 0)

\* the close handler without its test of the exit code
closeResult_IgnoresCode(code, out, err) ==
    LET m == jsonMatch(out)
        parsed == JSONparse(m.text)
        data == unwrap(parsed.val)
    IN IF ~m.found THEN Failure(NoJsonError, out)
       ELSE IF ~parsed.ok THEN Failure(ParseError(parsed.message), out)
       ELSE IF ~data.ok THEN Failure(ParseError(data.message), out)
       ELSE Success(data.val, out)

\* what the 'close' handler resolves the promise with
closeResult(code, out, err) ==
    IF code # "0" THEN Failure(ExitError(code, err), out)
    ELSE LET m == jsonMatch(out)
             parsed == JSONparse(m.text)
             data == unwrap(parsed.val)
         IN IF ~m.found THEN Failure(NoJsonError, out)
            ELSE IF ~parsed.ok THEN Failure(ParseError(parsed.message), out)
            ELSE IF ~data.ok THEN Failure(ParseError(data.message), out)
            ELSE Success(data.val, out)

\* what the timer's callback resolves the promise with
timeoutResult(out) == Failure(TimeoutError, out)

\* what the 'error' handler resolves the promise with
errorResult_NoMessage(message) == FailureWithoutOutput(<<>>)

errorResult(message) == FailureWithoutOutput(ExecuteError(message))

resolve_Overwrites(pr, by, value) == [settled |-> TRUE, by |-> by, value |-> value]

\* resolve(value): a promise settles once; later calls change nothing
resolve(pr, by, value) ==
    IF pr.settled THEN pr ELSE [settled |-> TRUE, by |-> by, value |-> value]

-----------------------------------------------------------------------------
(* createAnalysisPrompt *)

\* options.existingRules: a string, or undefined
Undefined == [defined |-> FALSE, text |-> <<>>]
Str(text) == [defined |-> TRUE, text |-> text]

ExistingRulesOptions ==
    { Undefined, Str(<<>>), Str(convertToMDC(KeyA, CatX)) }

\* the section added under "if (existingRules)": the empty string is falsy
ExistingRulesSection(existing) ==
    IF existing.defined /\ existing.text # <<>>
    THEN <<"\n", "\n", "EXISTING RULES:", "\n",
           "The following rules already exist for this codebase. Review them and:", "\n",
           "1. Keep rules that are still valid based on current code", "\n",
           "2. Update rules that need changes based on code evolution", "\n",
           "3. Remove rules that no longer apply", "\n",
           "4. Add new rules for patterns you discover", "\n", "\n">>
         \o existing.text
         \o <<"\n", "\n",
              "Your analysis should be an intelligent diff - preserve what's still accurate, update what changed, remove what's obsolete, add what's new.",
              "\n">>
    ELSE <<>>

\* createAnalysisPrompt; the aspects to analyze and the JSON format are fixed
\* text, kept as one atom per part, the five requested keys aside
createAnalysisPrompt(existing) ==
    <<"Analyze this entire codebase thoroughly and provide comprehensive coding rules and guidelines.">>
    \o ExistingRulesSection(existing)
    \o <<" ", "\n", "\n",
         "DO NOT WRITE ANY CODE OR MODIFY ANY FILES. Only analyze and provide insights.",
         "\n", "\n", "Please analyze the following aspects:", "\n", "\n",
         "Output your analysis as a structured JSON object with this format:", "\n">>
    \o KeyCodePatterns \o <<"\n">> \o KeyFrameworks \o <<"\n">> \o KeyStructure
    \o <<"\n">> \o KeyConventions \o <<"\n">> \o KeyBestPractices \o <<"\n", "\n">>
    \o <<"Rule types:", "\n", "\n",
         "Only update the specific rule if any code pattern, framework, structure, or convention is changed.">>

-----------------------------------------------------------------------------
(* The agent's possible outputs *)

\* {"a":1} and {"b":1}
ObjA == <<"{", Quote, "a", Quote, ":", "1", "}">>
ObjB == <<"{", Quote, "b", Quote, ":", "1", "}">>
\* {\"a\":1}, the text of ObjA inside a JSON string, and the same one level deeper
ObjAEscaped == <<"{", Quote1, "a", Quote1, ":", "1", "}">>
ObjAEscaped2 == <<"{", Quote2, "a", Quote2, ":", "1", "}">>

\* {"result":"<text>"}
Wrapper(text) == <<"{", Quote, "result", Quote, ":", Quote>> \o text \o <<Quote, "}">>
\* {\"result\":\"<text>\"}, a wrapper inside a JSON string
WrapperEscaped(text) ==
    <<"{", Quote1, "result", Quote1, ":", Quote1>> \o text \o <<Quote1, "}">>

AgentOutputs ==
    { <<>>,
      <<"n", "o">>,
      <<"{", Quote, "a">>,
      <<"n", " ">> \o ObjA \o <<" ", "t">>,
      ObjA \o <<" ", "{", "x", "}">>,
      ObjA \o <<"\n">> \o ObjB,
      Wrapper(ObjAEscaped),
      <<"{", Quote, "t", Quote, ":", "1", ",", Quote, "result", Quote, ":", Quote>>
         \o ObjAEscaped \o <<Quote, "}">>,
      Wrapper(WrapperEscaped(ObjAEscaped2)),
      Wrapper(<<"h", "i">>),
      Wrapper(<<"{", "x", "}">>),
      <<"{", Quote, "result", Quote, ":">> \o ObjA \o <<"}">> }

AgentErrOutputs == { <<>>, <<"w">> }

\* the message of the error a failed spawn emits
SpawnErrors == { <<"spawn cursor-agent ENOENT">> }

-----------------------------------------------------------------------------
(* analyzeCodebase: the child process, the timer and the handlers *)

NoPromise == [settled |-> FALSE, by |-> "none", value |-> FailureWithoutOutput(<<>>)]

InvokeInit ==
    /\ prompt = <<>>
    /\ child = "none"
    /\ killed = FALSE
    /\ errorEmitted = FALSE
    /\ pendingOut = <<>>
    /\ pendingErr = <<>>
    /\ stdout = <<>>
    /\ stderr = <<>>
    /\ timeoutId = "none"
    /\ promise = NoPromise
    /\ exitCode = "none"
    /\ stdoutAtTimeout = <<>>

\* analyzeCodebase(options): createAnalysisPrompt, spawn('cursor-agent', args,
\* ...), the handlers and the timer are set up
analyzeCodebaseCall(existing) ==
    /\ child = "none"
    /\ prompt' = createAnalysisPrompt(existing)
    /\ \E out \in AgentOutputs, err \in AgentErrOutputs, spawned \in BOOLEAN :
          /\ child' = IF spawned THEN "running" ELSE "failed"
          /\ pendingOut' = IF spawned THEN out ELSE <<>>
          /\ pendingErr' = IF spawned THEN err ELSE <<>>
    /\ stdout' = <<>>
    /\ stderr' = <<>>
    /\ timeoutId' = "armed"
    /\ UNCHANGED <<killed, errorEmitted, promise, exitCode, stdoutAtTimeout>>

\* childProcess.stdout.on('data'): stdout += chunk
stdoutData ==
    /\ child = "running"
    /\ pendingOut # <<>>
    /\ \E n \in 1..Len(pendingOut) :
          /\ stdout' = stdout \o SubSeq(pendingOut, 1, n)
          /\ pendingOut' = SubSeq(pendingOut, n + 1, Len(pendingOut))
    /\ UNCHANGED <<prompt, child, killed, errorEmitted, pendingErr, stderr, timeoutId,
                   promise, exitCode, stdoutAtTimeout>>

\* childProcess.stderr.on('data'): stderr += chunk
stderrData ==
    /\ child = "running"
    /\ pendingErr # <<>>
    /\ \E n \in 1..Len(pendingErr) :
          /\ stderr' = stderr \o SubSeq(pendingErr, 1, n)
          /\ pendingErr' = SubSeq(pendingErr, n + 1, Len(pendingErr))
    /\ UNCHANGED <<prompt, child, killed, errorEmitted, pendingOut, stdout, timeoutId,
                   promise, exitCode, stdoutAtTimeout>>

\* the setTimeout callback: kill the child, resolve with the timeout error
timeoutFires ==
    /\ timeoutId = "armed"
    /\ timeoutId' = "fired"
    /\ killed' = TRUE
    /\ promise' = resolve(promise, "timeout", timeoutResult(stdout))
    /\ stdoutAtTimeout' = stdout
    /\ UNCHANGED <<prompt, child, errorEmitted, pendingOut, pendingErr, stdout, stderr,
                   exitCode>>

\* a clearTimeout that leaves the timer armed
clearTimeout_Noop(id) == id

\* clearTimeout(timeoutId)
clearTimeout(id) == IF id = "armed" THEN "cleared" ELSE id

\* the exit codes 'close' may report: a child that printed all it had exits
\* with 0 or 1; a killed child was ended by the signal (null) or exited on
\* it; a child that never started reports a negative errno
ExitCodes ==
    IF child = "failed" THEN {"-2"}
    ELSE IF killed THEN {"null", "0"}
    ELSE {"0", "1"}

\* childProcess.on('close')
childClose ==
    /\ \/ child = "running" /\ (killed \/ (pendingOut = <<>> /\ pendingErr = <<>>))
       \/ child = "failed" /\ errorEmitted
    /\ \E code \in ExitCodes :
          /\ promise' = resolve(promise, "close", closeResult(code, stdout, stderr))
          /\ exitCode' = code
    /\ timeoutId' = clearTimeout(timeoutId)
    /\ child' = "closed"
    /\ UNCHANGED <<prompt, killed, errorEmitted, pendingOut, pendingErr, stdout,
                   stderr, stdoutAtTimeout>>

\* childProcess.on('error'): the process could not be spawned
childError ==
    /\ child = "failed"
    /\ ~errorEmitted
    /\ errorEmitted' = TRUE
    /\ \E message \in SpawnErrors :
          promise' = resolve(promise, "error", errorResult(message))
    /\ timeoutId' = clearTimeout(timeoutId)
    /\ UNCHANGED <<prompt, child, killed, pendingOut, pendingErr, stdout, stderr,
                   exitCode, stdoutAtTimeout>>

InvokeNext ==
    \/ (\E existing \in ExistingRulesOptions : analyzeCodebaseCall(existing))
          /\ UNCHANGED <<syncVars, pureVars, genVars, compareVars>>
    \/ stdoutData /\ UNCHANGED <<syncVars, pureVars, genVars, compareVars>>
    \/ stderrData /\ UNCHANGED <<syncVars, pureVars, genVars, compareVars>>
    \/ timeoutFires /\ UNCHANGED <<syncVars, pureVars, genVars, compareVars>>
    \/ childClose /\ UNCHANGED <<syncVars, pureVars, genVars, compareVars>>
    \/ childError /\ UNCHANGED <<syncVars, pureVars, genVars, compareVars>>

-----------------------------------------------------------------------------
(* index.ts and cli.ts: generateRules and the CLI's root action *)

\* the events that end a run of cursor-agent --version: 'close' with the exit
\* code and what was printed, or 'error'; the first to arrive decides
CheckEvents ==
    { [kind |-> "close", code |-> "0", output |-> <<"1", ".", "0", "\n">>, errorOutput |-> <<>>],
      [kind |-> "close", code |-> "0", output |-> <<" ", "\n">>, errorOutput |-> <<>>],
      [kind |-> "close", code |-> "1", output |-> <<"1", ".", "0", "\n">>, errorOutput |-> <<"e">>],
      [kind |-> "error", code |-> "none", output |-> <<>>, errorOutput |-> <<>>] }

NotChecked == [checked |-> FALSE, installed |-> FALSE, version |-> <<>>, error |-> <<>>]

\* what checkCursorAgent resolves with
checkCursorAgent(event) ==
    IF event.kind = "close" /\ event.code = "0" /\ trim(event.output) # <<>>
    THEN [checked |-> TRUE, installed |-> TRUE, version |-> trim(event.output),
          error |-> <<>>]
    ELSE IF event.kind = "close"
    THEN [checked |-> TRUE, installed |-> FALSE, version |-> <<>>,
          error |-> IF event.errorOutput # <<>> THEN event.errorOutput
                    ELSE <<"cursor-agent command not found">>]
    ELSE [checked |-> TRUE, installed |-> FALSE, version |-> <<>>,
          error |-> <<"spawn cursor-agent ENOENT">>]

\* the failure objects generateRules builds
failureResult(error) ==
    [success |-> FALSE, created |-> <<>>, updated |-> <<>>, unchanged |-> <<>>,
     error |-> error]

NotInstalledError == <<"cursor-agent is not installed or not accessible in PATH">>

\* parseRawOutput: the five conventional categories, the raw output as the
\* one rule of codePatterns
parseRawOutput(rawOutput) ==
    << Entry(KeyCodePatterns,
             Category(<<"Code Patterns & Style">>, <<"Extracted from raw output">>,
                      <<Rule(<<"Analysis Output">>, rawOutput)>>)),
       Entry(KeyFrameworks,
             Category(<<"Frameworks & Libraries">>, <<"Extracted from raw output">>, <<>>)),
       Entry(KeyStructure,
             Category(<<"Project Structure">>, <<"Extracted from raw output">>, <<>>)),
       Entry(KeyConventions,
             Category(<<"Coding Conventions">>, <<"Extracted from raw output">>, <<>>)),
       Entry(KeyBestPractices,
             Category(<<"Best Practices">>, <<"Extracted from raw output">>, <<>>)) >>

\* the fallback is tried for a result whose rawOutput is set and holds text
rawOutputTruthy_Defined(analysisResult) == analysisResult.hasRawOutput

\* if (analysisResult.rawOutput): undefined and '' are falsy
rawOutputTruthy(analysisResult) ==
    analysisResult.hasRawOutput /\ analysisResult.rawOutput # <<>>

\* analysisResult.data as writeRules reads it: Object.entries of the parsed
\* object, one entry per key in the order of first appearance.  The values
\* the parser yields here (numbers, strings, objects without an array) have
\* no rules with a length above 0: writeRules passes over such an entry as
\* over a missing category.
toAnalysisData(val) ==
    LET first == SelectSeq([i \in 1..Len(val.members) |-> i],
                           LAMBDA i : \A j \in 1..(i - 1) :
                                         val.members[j].k # val.members[i].k)
    IN [n \in 1..Len(first) |-> Absent(val.members[first[n]].k)]

\* analysisResult.error || 'Analysis failed'
errorOr(error, default) == IF error # <<>> THEN error ELSE default

\* the directories the CLI is run against
NameCodePatterns == <<"c", "o", "d", "e", "p", "a", "t", "t", "e", "r", "n", "s", ".", "m", "d", "c">>
GenerateDirs ==
    { [exists |-> FALSE, dir |-> <<>>],
      [exists |-> TRUE, dir |-> <<File(generateFilename(KeyFrameworks),
                                       convertToMDC(KeyFrameworks, CatX)),
                                  File(NameCodePatterns, Junk)>>] }

NoGenHist == [before |-> [exists |-> FALSE, dir |-> <<>>], awaited |-> FALSE,
              analysisResult |-> FailureWithoutOutput(<<>>)]

GenIdle ==
    /\ cliPc = "idle"
    /\ processExit = "none"
    /\ config = [dryRun |-> FALSE]
    /\ genPc = "idle"
    /\ agentCheck = NotChecked
    /\ genResult = NoResult
    /\ genHist = NoGenHist

\* the file system before the CLI runs
GenerateSyncInit ==
    /\ caseSensitive = TRUE
    /\ \E d \in GenerateDirs : dirExists = d.exists /\ dir = d.dir
    /\ clock = 0
    /\ pc = [p \in Passes |-> "idle"]
    /\ args = [p \in Passes |-> [analysisData |-> <<>>, dryRun |-> FALSE]]
    /\ existingRules = [p \in Passes |-> <<>>]
    /\ idx = [p \in Passes |-> 0]
    /\ result = [p \in Passes |-> NoResult]
    /\ existingFiles = [p \in Passes |-> <<>>]
    /\ removed = [p \in Passes |-> <<>>]
    /\ hist = [p \in Passes |-> NoHist]

\* program.action: the options are read, checkCursorAgent is called
cliAction ==
    /\ cliPc = "idle"
    /\ cliPc' = "check"
    /\ config' \in [dryRun : BOOLEAN]
    /\ UNCHANGED <<processExit, genPc, agentCheck, genResult, genHist>>

\* the CLI's checkCursorAgent resolves: process.exit(1), or generateRules is
\* called, which calls checkCursorAgent in its turn
cliChecked ==
    /\ cliPc = "check"
    /\ \E event \in CheckEvents :
          IF checkCursorAgent(event).installed
          THEN /\ cliPc' = "generate"
               /\ genPc' = "check"
               /\ genHist' = [genHist EXCEPT !.before = [exists |-> dirExists, dir |-> dir]]
               /\ UNCHANGED processExit
          ELSE /\ cliPc' = "ended"
               /\ processExit' = "1"
               /\ UNCHANGED <<genPc, genHist>>
    /\ UNCHANGED <<config, agentCheck, genResult>>

\* generateRules after await checkCursorAgent(): the failure is returned, or
\* analyzeCodebase({ verbose }) is called
generateRulesChecked ==
    /\ genPc = "check"
    /\ \E event \in CheckEvents :
          /\ agentCheck' = checkCursorAgent(event)
          /\ IF agentCheck'.installed
             THEN /\ analyzeCodebaseCall(Undefined)
                  /\ genPc' = "analyze"
                  /\ UNCHANGED genResult
             ELSE /\ genResult' = failureResult(NotInstalledError)
                  /\ genPc' = "returned"
                  /\ UNCHANGED invokeVars
    /\ UNCHANGED <<cliPc, processExit, config, genHist>>

\* generateRules after await analyzeCodebase(): the fallback, the failure
\* returned, or writeRules called with the data
generateRulesAnalyzed ==
    /\ genPc = "analyze"
    /\ promise.settled
    /\ genHist' = [genHist EXCEPT !.awaited = TRUE, !.analysisResult = promise.value]
    /\ LET analysisResult == promise.value
           fallback == ~analysisResult.success /\ rawOutputTruthy(analysisResult)
       IN IF ~analysisResult.success /\ ~fallback
          THEN /\ genResult' = failureResult(errorOr(analysisResult.error,
                                                     <<"Analysis failed">>))
               /\ genPc' = "returned"
               /\ UNCHANGED syncVars
          ELSE /\ writeRulesCallWith(1, IF fallback
                                        THEN parseRawOutput(analysisResult.rawOutput)
                                        ELSE toAnalysisData(analysisResult.data),
                                     config.dryRun)
               /\ genPc' = "write"
               /\ UNCHANGED genResult
    /\ UNCHANGED <<cliPc, processExit, config, agentCheck>>

\* return writeResult
generateRulesReturn ==
    /\ genPc = "write"
    /\ pc[1] = "done"
    /\ genResult' = result[1]
    /\ genPc' = "returned"
    /\ UNCHANGED <<cliPc, processExit, config, agentCheck, genHist>>

\* the code the CLI ends the process with, given generateRules' result
exitAfter_Never(r) == "none"

exitAfter(r) == IF r.success THEN "none" ELSE "1"

\* the CLI after await generateRules(config)
cliGenerated ==
    /\ cliPc = "generate"
    /\ genPc = "returned"
    /\ processExit' = exitAfter(genResult)
    /\ cliPc' = "ended"
    /\ UNCHANGED <<config, genPc, agentCheck, genResult, genHist>>

\* the child's events are served while generateRules awaits the analysis and
\* after the CLI's action has ended without process.exit: a settled promise's
\* continuation runs to its end before the next event
EventLoopFree ==
    \/ genPc = "analyze" /\ ~promise.settled
    \/ cliPc = "ended" /\ processExit = "none"

GenerateNext ==
    \/ cliAction /\ UNCHANGED <<syncVars, invokeVars, pureVars, compareVars>>
    \/ cliChecked /\ UNCHANGED <<syncVars, invokeVars, pureVars, compareVars>>
    \/ generateRulesChecked /\ UNCHANGED <<syncVars, pureVars, compareVars>>
    \/ generateRulesAnalyzed /\ UNCHANGED <<invokeVars, pureVars, compareVars>>
    \/ generateRulesReturn /\ UNCHANGED <<syncVars, invokeVars, pureVars, compareVars>>
    \/ cliGenerated /\ UNCHANGED <<syncVars, invokeVars, pureVars, compareVars>>
    \/ EventLoopFree /\ stdoutData /\ UNCHANGED <<syncVars, pureVars, genVars, compareVars>>
    \/ EventLoopFree /\ stderrData /\ UNCHANGED <<syncVars, pureVars, genVars, compareVars>>
    \/ EventLoopFree /\ timeoutFires /\ UNCHANGED <<syncVars, pureVars, genVars, compareVars>>
    \/ EventLoopFree /\ childClose /\ UNCHANGED <<syncVars, pureVars, genVars, compareVars>>
    \/ EventLoopFree /\ childError /\ UNCHANGED <<syncVars, pureVars, genVars, compareVars>>
    \/ genPc = "write" /\ ensureRulesDirectory(1) /\ UNCHANGED <<invokeVars, pureVars, genVars, compareVars>>
    \/ genPc = "write" /\ mkdirThrows(1) /\ UNCHANGED <<invokeVars, pureVars, genVars, compareVars>>
    \/ genPc = "write" /\ readExistingRules(1) /\ UNCHANGED <<invokeVars, pureVars, genVars, compareVars>>
    \/ genPc = "write" /\ readThrows(1) /\ UNCHANGED <<invokeVars, pureVars, genVars, compareVars>>
    \/ genPc = "write" /\ writeRulesCategory(1) /\ UNCHANGED <<invokeVars, pureVars, genVars, compareVars>>
    \/ genPc = "write" /\ writeThrows(1) /\ UNCHANGED <<invokeVars, pureVars, genVars, compareVars>>
    \/ genPc = "write" /\ writeRulesSummary(1) /\ UNCHANGED <<invokeVars, pureVars, genVars, compareVars>>
    \/ genPc = "write" /\ summaryThrows(1) /\ UNCHANGED <<invokeVars, pureVars, genVars, compareVars>>
    \/ genPc = "write" /\ cleanupOldRules(1) /\ UNCHANGED <<invokeVars, pureVars, genVars, compareVars>>
    \/ genPc = "write" /\ cleanupThrows(1) /\ UNCHANGED <<invokeVars, pureVars, genVars, compareVars>>
    \/ genPc = "write" /\ cleanupVisit(1) /\ UNCHANGED <<invokeVars, pureVars, genVars, compareVars>>
    \/ genPc = "write" /\ unlinkThrows(1) /\ UNCHANGED <<invokeVars, pureVars, genVars, compareVars>>
    \/ genPc = "write" /\ writeRulesReturn(1) /\ UNCHANGED <<invokeVars, pureVars, genVars, compareVars>>

\* the steps the program takes by itself once they are due: the
\* continuations after a settled await and the synchronous body of writeRules
GenerateContinues ==
    \/ generateRulesAnalyzed /\ UNCHANGED <<invokeVars, pureVars, compareVars>>
    \/ generateRulesReturn /\ UNCHANGED <<syncVars, invokeVars, pureVars, compareVars>>
    \/ cliGenerated /\ UNCHANGED <<syncVars, invokeVars, pureVars, compareVars>>
    \/ /\ genPc = "write"
       /\ \/ ensureRulesDirectory(1) \/ mkdirThrows(1) \/ readExistingRules(1)
          \/ readThrows(1) \/ writeRulesCategory(1) \/ writeThrows(1)
          \/ writeRulesSummary(1) \/ summaryThrows(1) \/ cleanupOldRules(1)
          \/ cleanupThrows(1) \/ cleanupVisit(1) \/ unlinkThrows(1)
          \/ writeRulesReturn(1)
       /\ UNCHANGED <<invokeVars, pureVars, genVars, compareVars>>

-----------------------------------------------------------------------------
(* Direct calls of needsUpdate *)

\* file contents: empty, blank, with leading and trailing whitespace, with
\* whitespace runs of several lengths and kinds, with words joined, swapped
\* and in another case, and two renderings that differ in a run's length
CompareTexts ==
    { <<>>, <<" ">>, <<"x">>, <<"X">>, <<" ", "x">>, <<"x", "\n">>,
      <<"x", "y">>, <<"x", " ", "y">>, <<"x", " ", "\t", "y">>,
      <<"\n", "x", "\n", "y", "\n", "\n">>, <<"y", " ", "x">>,
      convertToMDC(KeyA, CatX), convertToMDC(KeyA, CatXSpaced) }

NotCompared == [called |-> FALSE, ab |-> FALSE, ba |-> FALSE, aa |-> FALSE, bb |-> FALSE]

CompareIdle ==
    /\ contents = [existingContent |-> <<>>, newContent |-> <<>>]
    /\ compared = NotCompared
    /\ classified = "none"

CompareInit ==
    /\ contents \in [existingContent : CompareTexts, newContent : CompareTexts]
    /\ compared = NotCompared
    /\ classified = "none"

\* needsUpdate called on the two contents
needsUpdateCall ==
    /\ ~compared.called
    /\ compared' = [called |-> TRUE,
                    ab |-> needsUpdate(contents.existingContent, contents.newContent),
                    ba |-> needsUpdate(contents.newContent, contents.existingContent),
                    aa |-> needsUpdate(contents.existingContent, contents.existingContent),
                    bb |-> needsUpdate(contents.newContent, contents.newContent)]
    /\ UNCHANGED <<contents, classified>>

\* the branch writeRules takes for a category file whose snapshot holds
\* existingContent and whose rendering is newContent
classifyCall ==
    /\ classified = "none"
    /\ classified' = classify(<<File(NameA, contents.existingContent)>>, NameA,
                              contents.newContent)
    /\ UNCHANGED <<contents, compared>>

CompareNext ==
    \/ needsUpdateCall /\ UNCHANGED <<syncVars, invokeVars, pureVars, genVars>>
    \/ classifyCall /\ UNCHANGED <<syncVars, invokeVars, pureVars, genVars>>

-----------------------------------------------------------------------------
(* The specifications *)

\* the directory while only the invoker runs
SyncIdle ==
    /\ caseSensitive = TRUE
    /\ dirExists = FALSE
    /\ dir = <<>>
    /\ clock = 0
    /\ pc = [p \in Passes |-> "idle"]
    /\ args = [p \in Passes |-> [analysisData |-> <<>>, dryRun |-> FALSE]]
    /\ existingRules = [p \in Passes |-> <<>>]
    /\ idx = [p \in Passes |-> 0]
    /\ result = [p \in Passes |-> NoResult]
    /\ existingFiles = [p \in Passes |-> <<>>]
    /\ removed = [p \in Passes |-> <<>>]
    /\ hist = [p \in Passes |-> NoHist]

\* no direct call of the pure functions
NotCalled == <<>>
NoCall == [categoryName |-> <<>>, category |-> CatEmpty]

PureIdle ==
    /\ callArgs = NoCall
    /\ returnedMdc = NotCalled
    /\ returnedFilenames = <<>>

\* the arguments of the direct calls
PureInit ==
    /\ callArgs \in [categoryName : PureKeys, category : PureCategories]
    /\ returnedMdc = NotCalled
    /\ returnedFilenames = <<>>

\* convertToMDC(categoryName, category) is called and returns
convertToMDCCall ==
    /\ returnedMdc = NotCalled
    /\ returnedMdc' = convertToMDC(callArgs.categoryName, callArgs.category)
    /\ UNCHANGED <<callArgs, returnedFilenames>>

\* generateFilename(categoryName) is called and returns
generateFilenameCall ==
    /\ Len(returnedFilenames) < MaxCalls
    /\ returnedFilenames' = Append(returnedFilenames, generateFilename(callArgs.categoryName))
    /\ UNCHANGED <<callArgs, returnedMdc>>

PureNext ==
    \/ convertToMDCCall /\ UNCHANGED <<syncVars, invokeVars, genVars, compareVars>>
    \/ generateFilenameCall /\ UNCHANGED <<syncVars, invokeVars, genVars, compareVars>>

Init == SyncInit /\ InvokeInit /\ PureIdle /\ GenIdle /\ CompareIdle

\* writeRules calls made one after the other against one directory
Spec == Init /\ [][SyncNext]_vars

InitConcurrent == ConcurrentInit /\ InvokeInit /\ PureIdle /\ GenIdle /\ CompareIdle

\* two invocations of writeRules at the same time
SpecConcurrent == InitConcurrent /\ [][ConcurrentNext]_vars

InitInvoke == SyncIdle /\ InvokeInit /\ PureIdle /\ GenIdle /\ CompareIdle

\* one call of analyzeCodebase
SpecInvoke == InitInvoke /\ [][InvokeNext]_vars

\* one call of analyzeCodebase, the timer firing once it is due: an armed
\* timer that is never cleared runs its callback
SpecInvokeLive ==
    /\ InitInvoke /\ [][InvokeNext]_vars
    /\ WF_vars(timeoutFires /\ UNCHANGED <<syncVars, pureVars, genVars, compareVars>>)

InitPure == SyncIdle /\ InvokeInit /\ PureInit /\ GenIdle /\ CompareIdle

\* direct calls of convertToMDC and generateFilename
SpecPure == InitPure /\ [][PureNext]_vars

InitCompare == SyncIdle /\ InvokeInit /\ PureIdle /\ GenIdle /\ CompareInit

\* direct calls of needsUpdate and of the classification that uses it
SpecCompare == InitCompare /\ [][CompareNext]_vars

InitGenerate == GenerateSyncInit /\ InvokeInit /\ PureIdle /\ GenIdle /\ CompareIdle

\* one run of the CLI's root action
SpecGenerate == InitGenerate /\ [][GenerateNext]_vars

\* a run of the CLI in which the program takes its own steps and an armed
\* timer fires; nothing makes the cursor-agent processes exit
SpecGenerateLive ==
    /\ InitGenerate /\ [][GenerateNext]_vars
    /\ WF_vars(GenerateContinues)
    /\ WF_vars(EventLoopFree /\ timeoutFires /\ UNCHANGED <<syncVars, pureVars, genVars, compareVars>>)


-----------------------------------------------------------------------------
(* Properties of the synchronizer *)

Done(p) == pc[p] = "done"
Threw(p) == hist[p].thrown # <<>>
\* no later call has started: the directory is as call p left it
Latest(p) == \A q \in Passes : q > p => pc[q] = "idle"
AllNames(r) == Range(r.created) \union Range(r.updated) \union Range(r.unchanged)
WrittenNames(p) == {hist[p].written[i].name : i \in 1..Len(hist[p].written)}
LowerNames(names) == {toLowerCase(n) : n \in names}
\* the content the directory holds under a name
ContentOf(d, name) == d[FileIndex(d, name)].content
\* the content a call last wrote under a name
LastWritten(p, name) ==
    LET w == hist[p].written
        at == {i \in 1..Len(w) : w[i].name = name}
    IN w[CHOOSE i \in at : \A j \in at : i >= j].content

\* C1: a dry-run call leaves the file system as it found it (no directory
\* created, no file written or deleted), and when a non-dry-run call follows it
\* on the same data, the same directory and the same clock reading, and neither
\* call meets a file system exception, both return the same created, updated
\* and unchanged lists.
C1_DryRun ==
    /\ \A p \in Passes :
          (pc[p] # "idle" /\ args[p].dryRun /\ Latest(p))
             => /\ dirExists = hist[p].before.exists
                /\ dir = hist[p].before.dir
    /\ \A p \in Passes :
          (/\ p + 1 \in Passes
           /\ Done(p) /\ Done(p + 1)
           /\ args[p].dryRun /\ ~args[p + 1].dryRun
           /\ ~Threw(p) /\ ~Threw(p + 1)
           /\ hist[p].summaryAt = hist[p + 1].summaryAt)
             => /\ result[p].created = result[p + 1].created
                /\ result[p].updated = result[p + 1].updated
                /\ result[p].unchanged = result[p + 1].unchanged

\* a dry run that reported an update and a removal, followed by the real run
\* that carried them out
C1_Witness ==
    /\ Done(1) /\ Done(2) /\ args[1].dryRun /\ ~args[2].dryRun
    /\ ~Threw(1) /\ ~Threw(2)
    /\ hist[1].summaryAt = hist[2].summaryAt
    /\ result[1].updated # <<>>
    /\ removed[1] # <<>>
    /\ dir # hist[1].before.dir

\* the directory after a cleanup that removed exactly the entries in `old`
AfterCleanup(p, old) ==
    SelectSeq(hist[p].atCleanup, LAMBDA f : f.name \notin old)

\* C2 as stated: cleanup deletes exactly the entries that end in .mdc, .md or
\* .txt and whose name is not in the run's created/updated/unchanged set.
C2_Original ==
    \A p \in Passes :
       (Done(p) /\ ~Threw(p) /\ ~args[p].dryRun /\ Latest(p))
          => dir = AfterCleanup(p, {n \in Range(readdirSync(hist[p].atCleanup)) :
                                      IsRuleFile(n) /\ n \notin Range(hist[p].keep)})

\* C2, amended: cleanup at the end of a non-dry-run pass deletes exactly the
\* entries that end in .mdc, .md or .txt and whose name, compared ignoring
\* letter case, is not in the run's created/updated/unchanged set; every other
\* entry is left in place with its content, and nothing is deleted when every
\* existing rule file is (ignoring case) in the keep-set.
C2_Cleanup ==
    \A p \in Passes :
       (Done(p) /\ ~Threw(p) /\ ~args[p].dryRun /\ Latest(p))
          => LET names == Range(readdirSync(hist[p].atCleanup))
                 keep == LowerNames(Range(hist[p].keep))
                 old == {n \in names : IsRuleFile(n) /\ toLowerCase(n) \notin keep}
             IN /\ dir = AfterCleanup(p, old)
                /\ Range(removed[p]) = old
                /\ (LowerNames({n \in names : IsRuleFile(n)}) = keep
                       => dir = hist[p].atCleanup)

\* a pass that removed a stale rule file and left both a kept rule file and a
\* file of another extension in place
C2_Witness ==
    \E p \in Passes :
       /\ Done(p) /\ ~Threw(p) /\ ~args[p].dryRun /\ Latest(p)
       /\ removed[p] # <<>>
       /\ Len(dir) < Len(hist[p].atCleanup)
       /\ \E i \in 1..Len(dir) : ~IsRuleFile(dir[i].name)
       /\ \E i \in 1..Len(dir) : dir[i].name \in Range(hist[p].keep)

\* the filenames of the categories that are present with at least one rule
NonEmptyFilenames(data) ==
    {generateFilename(data[i].key) :
        i \in {j \in 1..Len(data) :
                 data[j].present /\ Len(data[j].category.rules) > 0}}

\* no two non-empty categories derive the same filename
DistinctFilenames(data) ==
    \A i, j \in 1..Len(data) :
       (/\ data[i].present /\ Len(data[i].category.rules) > 0
        /\ data[j].present /\ Len(data[j].category.rules) > 0
        /\ generateFilename(data[i].key) = generateFilename(data[j].key)) => i = j

\* no two rule files of the directory have names equal up to letter case
NoCaseVariants(d) ==
    \A i, j \in 1..Len(d) :
       (/\ IsRuleFile(d[i].name) /\ IsRuleFile(d[j].name)
        /\ toLowerCase(d[i].name) = toLowerCase(d[j].name)) => i = j

\* C3 as stated: the second of two successive non-dry-run passes on the same
\* data reports nothing created and no category file updated, for every
\* AnalysisData.
C3_Original ==
    \A p \in Passes :
       (/\ p + 1 \in Passes /\ Done(p) /\ Done(p + 1)
        /\ ~args[p].dryRun /\ ~args[p + 1].dryRun
        /\ ~Threw(p) /\ ~Threw(p + 1)
        /\ args[p].analysisData = args[p + 1].analysisData)
          => /\ result[p + 1].created = <<>>
             /\ Range(result[p + 1].updated) \subseteq {summaryFilename}

\* C3, amended: the second of two successive non-dry-run passes on the same
\* data reports nothing created and no category file updated (at most
\* README.md), provided the non-empty categories derive pairwise distinct
\* filenames and the directory between the two passes holds no two rule files
\* whose names differ only in letter case.
C3_Idempotent ==
    \A p \in Passes :
       (/\ p + 1 \in Passes /\ Done(p) /\ Done(p + 1)
        /\ ~args[p].dryRun /\ ~args[p + 1].dryRun
        /\ ~Threw(p) /\ ~Threw(p + 1)
        /\ args[p].analysisData = args[p + 1].analysisData
        /\ DistinctFilenames(args[p].analysisData)
        /\ NoCaseVariants(hist[p + 1].before.dir))
          => /\ result[p + 1].created = <<>>
             /\ Range(result[p + 1].updated) \subseteq {summaryFilename}

\* a first pass that wrote a category file and a second pass on the same data
\* that found it unchanged
C3_Witness ==
    /\ Done(1) /\ Done(2) /\ ~args[1].dryRun /\ ~args[2].dryRun
    /\ ~Threw(1) /\ ~Threw(2)
    /\ DistinctFilenames(args[1].analysisData)
    /\ NoCaseVariants(hist[2].before.dir)
    /\ \E f \in Range(result[1].created) \union Range(result[1].updated) :
          f # summaryFilename /\ f \in Range(result[2].unchanged)

\* the filenames of the categories that are absent or have no rule
SkippedFilenames(data) ==
    {generateFilename(data[i].key) :
        i \in {j \in 1..Len(data) :
                 ~data[j].present \/ Len(data[j].category.rules) = 0}}

\* C4 as stated: the filename derived from the key of an absent or empty
\* category appears in none of the created, updated or unchanged lists.
C4_Original ==
    \A p \in Passes :
       Done(p) => AllNames(result[p]) \intersect SkippedFilenames(args[p].analysisData) = {}

\* C4, amended: writeRules writes no file for a category that is absent or has
\* an empty rule sequence, and the filename derived from its key appears in
\* none of the created, updated or unchanged lists unless a non-empty category
\* of the same data derives the same filename: every name written or listed
\* is README.md or the filename of a non-empty category.
C4_EmptySkipped ==
    \A p \in Passes :
       pc[p] # "idle"
          => (AllNames(result[p]) \union WrittenNames(p))
                \subseteq (NonEmptyFilenames(args[p].analysisData) \union {summaryFilename})

\* a finished pass over data with an empty category, whose filename is in no
\* list and not on disk, next to a category that was written
C4_Witness ==
    \E p \in Passes :
       /\ Done(p) /\ ~Threw(p) /\ ~args[p].dryRun /\ Latest(p)
       /\ args[p].analysisData = <<Entry(KeyB, CatEmpty), Entry(KeyA, CatY)>>
       /\ NameB \notin AllNames(result[p])
       /\ ~HasFile(dir, NameB)
       /\ NameA \in WrittenNames(p)

\* C5: when a file system call throws, the pass ends there with success false
\* and the exception's message as error, and every file the pass had written
\* is still on disk with the content the pass gave it.
C5_NoRollback ==
    \A p \in Passes :
       (Done(p) /\ Threw(p))
          => /\ result[p].success = FALSE
             /\ result[p].error = hist[p].thrown
             /\ Latest(p) =>
                   \A n \in WrittenNames(p) :
                      HasFile(dir, n) /\ ContentOf(dir, n) = LastWritten(p, n)

\* a pass that threw after it had changed a file of the prior directory
C5_Witness ==
    \E p \in Passes :
       /\ Done(p) /\ Threw(p) /\ Latest(p)
       /\ hist[p].written # <<>>
       /\ dir # hist[p].before.dir
       /\ result[p].error = <<"EACCES: permission denied, unlink">>

\* C6 as stated: the result of a pass that a file system error aborted lists
\* the files written before the error in created/updated.
C6_Original ==
    \A p \in Passes :
       (Done(p) /\ Threw(p))
          => WrittenNames(p) \subseteq Range(result[p].created) \union Range(result[p].updated)

\* C6, amended: the result of a pass that a file system error aborted lists
\* no file at all: created, updated and unchanged are empty, whatever the pass
\* had written, alongside success false and the error.
C6_EmptyListsOnError ==
    \A p \in Passes :
       (Done(p) /\ Threw(p))
          => /\ result[p].created = <<>>
             /\ result[p].updated = <<>>
             /\ result[p].unchanged = <<>>
             /\ result[p].success = FALSE
             /\ result[p].error # <<>>

\* a pass aborted by the summary's write after it had written a category file
C6_Witness ==
    \E p \in Passes :
       /\ Done(p) /\ Threw(p)
       /\ Len(hist[p].written) >= 1
       /\ pc[p] = "done" /\ idx[p] > Len(args[p].analysisData)
       /\ result[p].error = <<"EACCES: permission denied, open">>

\* the names of the .mdc, .md and .txt files of a directory
RuleFileNames(d) == {d[i].name : i \in {j \in 1..Len(d) : IsRuleFile(d[j].name)}}

\* the number of categories that are present with at least one rule
NonEmptyCount(data) ==
    Cardinality({j \in 1..Len(data) : data[j].present /\ Len(data[j].category.rules) > 0})

\* C17: a non-dry-run pass against an empty or missing directory, with k
\* non-empty categories of distinct filenames, leaves exactly k+1 files (one
\* per category plus README.md), all k+1 names in created, updated and
\* unchanged empty.
C17_FreshDirectory ==
    \A p \in Passes :
       (/\ Done(p) /\ ~Threw(p) /\ ~args[p].dryRun /\ Latest(p)
        /\ hist[p].before.dir = <<>>
        /\ DistinctFilenames(args[p].analysisData))
          => LET k == NonEmptyCount(args[p].analysisData)
                 names == NonEmptyFilenames(args[p].analysisData) \union {summaryFilename}
             IN /\ Len(dir) = k + 1
                /\ {dir[i].name : i \in 1..Len(dir)} = names
                /\ Len(result[p].created) = k + 1
                /\ Range(result[p].created) = names
                /\ result[p].updated = <<>>
                /\ result[p].unchanged = <<>>
                /\ result[p].success

\* two categories written into a directory that did not exist
C17_Witness ==
    \E p \in Passes :
       /\ Done(p) /\ ~Threw(p) /\ ~args[p].dryRun /\ Latest(p)
       /\ ~hist[p].before.exists
       /\ NonEmptyCount(args[p].analysisData) = 2
       /\ DistinctFilenames(args[p].analysisData)
       /\ Len(dir) = 3

\* C18 as stated: after a successful non-dry-run pass the .mdc/.md/.txt files
\* of the directory are exactly the derived filenames of the non-empty
\* categories plus README.md.
C18_Original ==
    \A p \in Passes :
       (Done(p) /\ ~Threw(p) /\ ~args[p].dryRun /\ Latest(p))
          => RuleFileNames(dir)
                = NonEmptyFilenames(args[p].analysisData) \union {summaryFilename}

\* C18, amended: after a successful non-dry-run pass the names of the
\* .mdc/.md/.txt files of the directory are, compared ignoring letter case,
\* exactly the derived filenames of the non-empty categories plus README.md.
C18_RuleFiles ==
    \A p \in Passes :
       (Done(p) /\ ~Threw(p) /\ ~args[p].dryRun /\ Latest(p))
          => LowerNames(RuleFileNames(dir))
                = LowerNames(NonEmptyFilenames(args[p].analysisData)
                                \union {summaryFilename})

\* a pass that removed a stale rule file and kept a file whose name is a
\* derived filename only up to letter case
C18_Witness ==
    \E p \in Passes :
       /\ Done(p) /\ ~Threw(p) /\ ~args[p].dryRun /\ Latest(p)
       /\ removed[p] # <<>>
       /\ \E n \in RuleFileNames(dir) :
             n \notin NonEmptyFilenames(args[p].analysisData) \union {summaryFilename}

\* the non-empty categories of the data that derive the filename f
Deriving(data, f) ==
    {i \in 1..Len(data) : /\ data[i].present /\ Len(data[i].category.rules) > 0
                          /\ generateFilename(data[i].key) = f}

\* the filenames two or more non-empty categories derive
CollidingFilenames(data) ==
    {f \in NonEmptyFilenames(data) : Cardinality(Deriving(data, f)) >= 2}

Rendering(data, i) == convertToMDC(data[i].key, data[i].category)

MaxOf(S) == CHOOSE i \in S : \A j \in S : i >= j

\* the rule files the directory held before the pass whose name is f up to
\* letter case, as positions in the directory
SnapshotMatches(d, f) ==
    {i \in 1..Len(d) : IsRuleFile(d[i].name) /\ toLowerCase(d[i].name) = toLowerCase(f)}

\* the pass writes content m under f: the snapshot has no file of that name,
\* or its first one differs from m by more than whitespace
IsWritten(d, f, m) ==
    LET at == SnapshotMatches(d, f)
    IN \/ at = {}
       \/ LET first == CHOOSE i \in at : \A j \in at : i <= j
          IN replaceWhitespaceRuns(trim(d[first].content), " ")
                # replaceWhitespaceRuns(trim(m), " ")

\* C21 as stated: after a non-dry-run pass over data in which two non-empty
\* categories derive one filename, the file holds the rendering of the later
\* category, whatever the directory held before.
C21_Original ==
    \A p \in Passes :
       (Done(p) /\ ~Threw(p) /\ ~args[p].dryRun /\ Latest(p))
          => \A f \in CollidingFilenames(args[p].analysisData) :
                /\ HasFile(dir, f)
                /\ ContentOf(dir, f)
                      = Rendering(args[p].analysisData,
                                  MaxOf(Deriving(args[p].analysisData, f)))

\* C21, amended: the last write wins.  After a non-dry-run pass over data in
\* which two or more non-empty categories derive one filename, the file holds
\* the rendering of the last of those categories that the pass wrote.  A
\* category is written unless the directory held, when the pass began, a rule
\* file of that name up to letter case whose content equals the category's
\* rendering up to whitespace.  So the file holds the later category's
\* rendering when that differs from the prior file, the rendering of an
\* earlier category when only that differs, and is as before when none does.
C21_LastWriteWins ==
    \A p \in Passes :
       (Done(p) /\ ~Threw(p) /\ ~args[p].dryRun /\ Latest(p))
          => \A f \in CollidingFilenames(args[p].analysisData) :
                LET data == args[p].analysisData
                    before == hist[p].before.dir
                    wrote == {i \in Deriving(data, f) :
                                 IsWritten(before, f, Rendering(data, i))}
                IN IF wrote # {}
                   THEN /\ HasFile(dir, f)
                        /\ ContentOf(dir, f) = Rendering(data, MaxOf(wrote))
                   ELSE /\ HasFile(dir, f) <=> HasFile(before, f)
                        /\ HasFile(dir, f) => ContentOf(dir, f) = ContentOf(before, f)

\* a pass over two colliding categories that found the later one's rendering
\* on disk, rewrote the file for the earlier one and left it so
C21_Witness ==
    \E p \in Passes :
       /\ Done(p) /\ ~Threw(p) /\ ~args[p].dryRun /\ Latest(p)
       /\ \E f \in CollidingFilenames(args[p].analysisData) :
             LET data == args[p].analysisData
                 last == MaxOf(Deriving(data, f))
             IN /\ HasFile(dir, f)
                /\ ContentOf(dir, f) # Rendering(data, last)
                /\ \E i \in Deriving(data, f) :
                      i < last /\ ContentOf(dir, f) = Rendering(data, i)
                /\ f \in Range(result[p].unchanged) /\ f \in Range(result[p].updated)

\* the pass has classified the summary and has not been aborted
SummaryDone(p) == hist[p].summaryAt >= 0 /\ ~Threw(p) /\ pc[p] \notin {"idle", "ensure", "read", "loop"}

\* C22 as stated: the first pass against a directory without README.md
\* lists the summary as created; a pass that runs at a later clock time than
\* the non-dry-run pass before it lists the summary as updated and rewrites
\* it, the data being the same.
C22_Original ==
    /\ (SummaryDone(1) /\ ~HasFile(hist[1].before.dir, summaryFilename))
          => summaryFilename \in Range(result[1].created)
    /\ \A p \in Passes :
          (/\ p + 1 \in Passes /\ Done(p) /\ ~Threw(p) /\ ~args[p].dryRun
           /\ SummaryDone(p + 1) /\ ~args[p + 1].dryRun
           /\ hist[p + 1].summaryAt > hist[p].summaryAt)
             => /\ summaryFilename \in Range(result[p + 1].updated)
                /\ summaryFilename \in WrittenNames(p + 1)

\* C22, amended: the first pass against a directory that holds no rule file
\* named README.md up to letter case lists the summary as created, in a dry
\* run too; a pass that runs at a later clock time than the non-dry-run pass
\* before it lists the summary as updated and writes the new summary, with
\* the same category data.
C22_Summary ==
    /\ (SummaryDone(1) /\ SnapshotMatches(hist[1].before.dir, summaryFilename) = {})
          => /\ summaryFilename \in Range(result[1].created)
             /\ summaryFilename \notin Range(result[1].updated)
    /\ \A p \in Passes :
          (/\ p + 1 \in Passes /\ Done(p) /\ ~Threw(p) /\ ~args[p].dryRun
           /\ SummaryDone(p + 1) /\ ~args[p + 1].dryRun
           /\ hist[p + 1].summaryAt > hist[p].summaryAt)
             => /\ args[p + 1].analysisData = args[p].analysisData
                /\ summaryFilename \in Range(result[p + 1].updated)
                /\ summaryFilename \notin Range(result[p + 1].created)
                /\ summaryFilename \in WrittenNames(p + 1)
                /\ LastWritten(p + 1, summaryFilename)
                      = createSummary(args[p + 1].analysisData, hist[p + 1].summaryAt)

\* a first pass that created README.md and a second pass on the same data,
\* one clock tick later, whose only change is the updated README.md
C22_Witness ==
    /\ Done(1) /\ Done(2) /\ ~Threw(1) /\ ~Threw(2)
    /\ ~args[1].dryRun /\ ~args[2].dryRun
    /\ hist[2].summaryAt > hist[1].summaryAt
    /\ summaryFilename \in Range(result[1].created)
    /\ result[2].created = <<>>
    /\ result[2].updated = <<summaryFilename>>
    /\ result[2].unchanged # <<>>
    /\ ContentOf(dir, summaryFilename)
          = createSummary(args[2].analysisData, hist[2].summaryAt)

\* what pass p may have reported the file f for: the renderings of the
\* categories that derive f, and its summary
RenderingsOf(p, f) ==
    {Rendering(args[p].analysisData, i) : i \in Deriving(args[p].analysisData, f)}
       \union (IF f = summaryFilename /\ hist[p].summaryAt >= 0
               THEN {createSummary(args[p].analysisData, hist[p].summaryAt)}
               ELSE {})

\* when pass p returned, the directory held no file named f up to letter
\* case with one of those contents up to whitespace
Lost(p, f) ==
    ~\E i \in 1..Len(hist[p].after) :
        /\ toLowerCase(hist[p].after[i].name) = toLowerCase(f)
        /\ \E m \in RenderingsOf(p, f) :
              replaceWhitespaceRuns(trim(hist[p].after[i].content), " ")
                 = replaceWhitespaceRuns(trim(m), " ")

\* pass q wrote or deleted a file named f up to letter case
Touched(q, f) ==
    toLowerCase(f) \in LowerNames(WrittenNames(q) \union Range(removed[q]))

\* C25: two interleaved passes with different data can race.  A file that a
\* pass returned in created, updated or unchanged with success true can be
\* absent, or hold other content than that pass's rendering, when the pass
\* returns; this never comes from the pass's own writes and cleanup: the
\* other pass then wrote or deleted that file.
C25_Race ==
    \A p \in Procs :
       (Done(p) /\ ~Threw(p))
          => /\ result[p].success
             /\ \A f \in AllNames(result[p]) :
                   Lost(p, f) => \E q \in Procs \ {p} : Touched(q, f)

\* a pass has returned success with a file in its lists that the other
\* pass's cleanup had deleted
C25_Witness ==
    \E p \in Procs : \E q \in Procs \ {p} :
       /\ Done(p) /\ ~Threw(p) /\ result[p].success
       /\ args[p].analysisData # args[q].analysisData
       /\ \E f \in AllNames(result[p]) :
             /\ Lost(p, f)
             /\ f \in Range(removed[q])
             /\ \A i \in 1..Len(hist[p].after) : hist[p].after[i].name # f

\* a pass has returned success with README.md in its lists while the file
\* held the summary of the other pass's data
C25_WitnessContent ==
    \E p \in Procs : \E q \in Procs \ {p} :
       /\ Done(p) /\ ~Threw(p) /\ result[p].success
       /\ Lost(p, summaryFilename)
       /\ summaryFilename \in AllNames(result[p])
       /\ \E i \in 1..Len(hist[p].after) :
             /\ hist[p].after[i].name = summaryFilename
             /\ hist[p].after[i].content \in RenderingsOf(q, summaryFilename)

WriteError == <<"EACCES: permission denied, open">>

DirNames(d) == {d[i].name : i \in 1..Len(d)}

\* C26: in a non-dry-run pass a file is deleted only after the loop over the
\* categories has ended and the summary has been handled; a pass in which a
\* write threw deletes nothing: every file the directory held before it is
\* still there when it ends.
C26_DeleteAfterWrites ==
    /\ [][\A p \in Passes :
             (~args[p].dryRun /\ removed'[p] # removed[p] /\ removed'[p] # <<>>)
                => /\ pc[p] = "unlink"
                   /\ idx[p] > Len(args[p].analysisData)
                   /\ hist[p].summaryAt >= 0
                   /\ ~Threw(p)]_vars
    /\ [][Len(dir') < Len(dir)
             => \E p \in Passes : pc[p] = "unlink" /\ ~args[p].dryRun /\ hist[p].summaryAt >= 0]_vars
    /\ [](\A p \in Passes :
             (hist[p].thrown = WriteError /\ ~args[p].dryRun)
                => /\ Done(p)
                   /\ removed[p] = <<>>
                   /\ Latest(p) => DirNames(hist[p].before.dir) \subseteq DirNames(dir))

\* a pass wrote a category file, the write of the summary threw, and the
\* stale rule file a clean-up would have deleted is still there
C26_Witness ==
    \E p \in Passes :
       /\ Done(p) /\ ~args[p].dryRun /\ Latest(p)
       /\ hist[p].thrown = WriteError
       /\ hist[p].written # <<>>
       /\ \E i \in 1..Len(dir) :
             /\ IsRuleFile(dir[i].name)
             /\ toLowerCase(dir[i].name) \notin
                   LowerNames(NonEmptyFilenames(args[p].analysisData)
                                 \union {summaryFilename})

NoDuplicates(list) == \A i, j \in 1..Len(list) : list[i] = list[j] => i = j

\* created, updated and unchanged are pairwise disjoint and free of repeats
DisjointLists(r) == NoDuplicates(r.created \o r.updated \o r.unchanged)

\* C27 as stated: in every result of writeRules the three lists are pairwise
\* disjoint and no filename occurs twice, for every AnalysisData.
C27_Original ==
    \A p \in Passes : Done(p) => DisjointLists(result[p])

\* C27, amended: in every result of writeRules the three lists are pairwise
\* disjoint and no filename occurs twice, for every prior directory content
\* and every AnalysisData in which no two non-empty categories derive the
\* same filename.
C27_Disjoint ==
    \A p \in Passes :
       (pc[p] # "idle" /\ DistinctFilenames(args[p].analysisData))
          => DisjointLists(result[p])

\* a pass over categories of distinct filenames has returned with a file in
\* each of the three lists
C27_Witness ==
    \E p \in Passes :
       /\ Done(p) /\ ~Threw(p)
       /\ DistinctFilenames(args[p].analysisData)
       /\ result[p].created # <<>>
       /\ result[p].updated # <<>>
       /\ result[p].unchanged # <<>>

-----------------------------------------------------------------------------
(* Properties of the invoker *)

\* the first balanced top-level object of s: from the first "{" to the "}"
\* that closes it
FirstBalancedObject(s) ==
    LET opens == {i \in 1..Len(s) : s[i] = "{"}
        first == CHOOSE i \in opens : \A j \in opens : i <= j
        Depth(k) == Cardinality({i \in first..k : s[i] = "{"})
                      - Cardinality({i \in first..k : s[i] = "}"})
        ends == IF opens = {} THEN {} ELSE {k \in first..Len(s) : Depth(k) = 0}
    IN IF ends = {} THEN [found |-> FALSE, text |-> <<>>]
       ELSE [found |-> TRUE,
             text |-> SubSeq(s, first, CHOOSE k \in ends : \A j \in ends : k <= j)]

ClosedWithZero == promise.settled /\ promise.by = "close" /\ exitCode = "0"

\* the object is a wrapper: it has a result field whose value is a string
\* that holds a "{" ... "}"
IsWrapper(val) ==
    /\ val.t = "object"
    /\ \E i \in 1..Len(val.members) : val.members[i].k = <<"result">>
    /\ LET at == {i \in 1..Len(val.members) : val.members[i].k = <<"result">>}
           r == val.members[CHOOSE i \in at : \A j \in at : i >= j].v
       IN r.t = "string" /\ jsonMatch(r.s).found

\* the string in a wrapper's result field
WrappedText(val) ==
    LET at == {i \in 1..Len(val.members) : val.members[i].k = <<"result">>}
    IN val.members[CHOOSE i \in at : \A j \in at : i >= j].v.s

\* C7: on exit code 0, when stdout holds a first balanced top-level object
\* (one that is no wrapper), whatever text precedes or follows it, the result
\* is success with that object, parsed, as data.
C7_Original ==
    ClosedWithZero =>
       LET first == FirstBalancedObject(stdout)
           obj == JSONparse(first.text)
       IN (first.found /\ obj.ok /\ ~IsWrapper(obj.val))
             => /\ promise.value.success
                /\ promise.value.data = obj.val

\* C8: on exit code 0, a parsed object that has the wrapper field result with
\* a JSON-looking string as value is replaced by what that string's
\* "{" ... "}" parses to, once: an inner object that is a wrapper too is the
\* data as it is; any other parsed object is the data itself.
C8_UnwrapOnce ==
    ClosedWithZero =>
       LET m == jsonMatch(stdout)
           top == JSONparse(m.text)
           inner == JSONparse(jsonMatch(WrappedText(top.val)).text)
       IN (m.found /\ top.ok)
             => IF IsWrapper(top.val)
                THEN IF inner.ok
                     THEN promise.value.success /\ promise.value.data = inner.val
                     ELSE ~promise.value.success
                ELSE promise.value.success /\ promise.value.data = top.val

\* the agent printed a wrapper of a wrapper: the data is the inner wrapper
C8_Witness ==
    /\ ClosedWithZero
    /\ promise.value.success
    /\ IsWrapper(JSONparse(jsonMatch(stdout).text).val)
    /\ IsWrapper(promise.value.data)

\* C9: once the timer has fired, the child has been killed and the promise is
\* settled with success false, the timeout error and the stdout accumulated
\* when the timer fired, whatever data or close events arrive afterwards.
C9_Timeout ==
    timeoutId = "fired" =>
       /\ killed
       /\ promise.settled
       /\ promise.value.success = FALSE
       /\ promise.value.error = <<"Analysis timeout after", " ", "3", "0", "0", " ", "seconds">>
       /\ promise.value.hasRawOutput
       /\ promise.value.rawOutput = stdoutAtTimeout

\* the timer fired on partial output, more output arrived, the child closed
C9_Witness ==
    /\ timeoutId = "fired"
    /\ child = "closed"
    /\ stdoutAtTimeout # <<>>
    /\ stdout # stdoutAtTimeout

\* C10: every failure result carries, as rawOutput, the stdout captured when
\* the result was produced.
C10_Original ==
    (promise.settled /\ ~promise.value.success) =>
       /\ promise.value.hasRawOutput
       /\ promise.value.rawOutput =
             (IF promise.by = "timeout" THEN stdoutAtTimeout ELSE stdout)

\* C11: when the child closes with a nonzero exit code before the timeout, the
\* result is success false with an error made of the exit code and the
\* captured stderr, and stdout is not parsed: the result has no data, whatever
\* JSON stdout holds.
C11_NonzeroExit ==
    (promise.settled /\ promise.by = "close" /\ exitCode # "0")
       => /\ promise.value.success = FALSE
          /\ promise.value.error
                = <<"cursor-agent exited with code", " ", exitCode, ":", " ">> \o stderr
          /\ ~promise.value.hasData
          /\ promise.value.rawOutput = stdout

\* the child printed a JSON object and a warning, then exited with code 1
C11_Witness ==
    /\ promise.settled /\ promise.by = "close" /\ exitCode = "1"
    /\ stderr # <<>>
    /\ jsonMatch(stdout).found
    /\ JSONparse(jsonMatch(stdout).text).ok

\* the outcome each handler resolves with, from what the handler saw
OutcomeOfClose == closeResult(exitCode, stdout, stderr)
OutcomeOfTimeout == timeoutResult(stdoutAtTimeout)

\* C23: analyzeCodebase's promise is settled eventually and once.  What it
\* is settled with never changes afterwards; settled by 'close', the timer
\* is cleared and never fires, and the result is the close handler's;
\* settled by the timer, the result is the timeout's, whatever 'close'
\* reports later; a child that has closed with the timer not fired, or a
\* timer that has fired, has settled the promise with the first of close,
\* error and timeout that happened.
C23_ResolvesOnce ==
    /\ [](child # "none" => <>promise.settled)
    /\ [][promise.settled => promise' = promise]_vars
    /\ [](promise.settled /\ promise.by = "close"
             => /\ timeoutId = "cleared"
                /\ ~errorEmitted
                /\ promise.value = OutcomeOfClose)
    /\ [](promise.settled /\ promise.by = "timeout"
             => /\ timeoutId = "fired"
                /\ promise.value = OutcomeOfTimeout)
    /\ [](promise.settled /\ promise.by = "error" => errorEmitted)
    /\ []((exitCode # "none" /\ timeoutId # "fired")
             => promise.settled /\ promise.by \in {"close", "error"})
    /\ [](timeoutId = "fired"
             => promise.settled /\ promise.by \in {"timeout", "error"})
    /\ [](promise.by = "error" \/ ~errorEmitted \/ promise.by = "timeout")

\* the child closed with code 0 before the timer fired: the timer is
\* cleared and the promise holds the parsed data
C23_Witness ==
    /\ promise.settled /\ promise.by = "close"
    /\ timeoutId = "cleared"
    /\ exitCode = "0"
    /\ promise.value.success

\* the object has a result field whose value is a string
HasStringResult(val) ==
    /\ val.t = "object"
    /\ \E i \in 1..Len(val.members) : val.members[i].k = <<"result">>
    /\ LET at == {i \in 1..Len(val.members) : val.members[i].k = <<"result">>}
       IN val.members[CHOOSE i \in at : \A j \in at : i >= j].v.t = "string"

\* C28 as stated: on exit code 0, when stdout parses to an object whose
\* result field is a string, a success carries the object parsed from inside
\* that string and not the wrapper, and a string that holds no "{" ... "}"
\* gives a failure.
C28_Original ==
    ClosedWithZero =>
       LET m == jsonMatch(stdout)
           top == JSONparse(m.text)
           inside == jsonMatch(WrappedText(top.val))
       IN (m.found /\ top.ok /\ HasStringResult(top.val))
             => /\ promise.value.success
                   => /\ inside.found
                      /\ JSONparse(inside.text).ok
                      /\ promise.value.data = JSONparse(inside.text).val
                      /\ promise.value.data # top.val
                /\ ~inside.found => ~promise.value.success

-----------------------------------------------------------------------------
(* Properties of the pure functions *)

\* the value on the alwaysApply line of a rendered document
RenderedFlag(doc) ==
    LET at == {i \in 1..Len(doc) : doc[i] = "alwaysApply:"}
    IN doc[(CHOOSE i \in at : \A j \in at : i <= j) + 2]

\* the alwaysApply line is the last of the frontmatter
FlagClosesFrontmatter(doc) ==
    \E i \in 1..Len(doc) - 5 :
       /\ doc[i] = "alwaysApply:" /\ doc[i + 1] = " "
       /\ SubSeq(doc, i + 3, i + 5) = <<"\n", "---", "\n">>

\* C14: the alwaysApply flag convertToMDC renders is the category's
\* alwaysApply when that is set (true or false), also with ruleType 'always';
\* otherwise true when ruleType is 'always'; otherwise true exactly when the
\* key is 'bestPractices' or 'conventions'.
C14_AlwaysApply ==
    returnedMdc # NotCalled =>
       LET c == callArgs.category
           flag == RenderedFlag(returnedMdc)
       IN /\ FlagClosesFrontmatter(returnedMdc)
          /\ c.alwaysApply \in {"true", "false"} => flag = c.alwaysApply
          /\ (c.alwaysApply = "undefined" /\ c.ruleType = "always") => flag = "true"
          /\ (c.alwaysApply = "undefined" /\ c.ruleType # "always")
                => /\ flag \in {"true", "false"}
                   /\ flag = "true" <=> callArgs.categoryName
                                           \in {KeyBestPractices, KeyConventions}

\* a category of key bestPractices and ruleType 'always' that sets
\* alwaysApply to false was rendered
C14_Witness ==
    /\ returnedMdc # NotCalled
    /\ callArgs.categoryName = KeyBestPractices
    /\ callArgs.category.alwaysApply = "false"
    /\ callArgs.category.ruleType = "always"
    /\ RenderedFlag(returnedMdc) = "false"

\* the key read character by character: a capital becomes its small letter,
\* the first character of a whitespace run a hyphen, the rest of the run
\* nothing
RECURSIVE HyphenatedLower(_, _)
HyphenatedLower(key, inRun) ==
    IF key = <<>> THEN <<>>
    ELSE IF Head(key) \in WS
         THEN (IF inRun THEN <<>> ELSE <<"-">>) \o HyphenatedLower(Tail(key), TRUE)
         ELSE <<LowerChar(Head(key))>> \o HyphenatedLower(Tail(key), FALSE)

\* C15: every call of generateFilename on a key returns the key lowercased,
\* with every run of whitespace replaced by a single hyphen, followed by
\* '.mdc': the same string at every call.
C15_Filename ==
    \A i \in 1..Len(returnedFilenames) :
       /\ returnedFilenames[i]
             = HyphenatedLower(callArgs.categoryName, FALSE) \o <<".", "m", "d", "c">>
       /\ returnedFilenames[i] = returnedFilenames[1]

\* two calls on a key with capitals and a run of three whitespace characters
C15_Witness ==
    /\ Len(returnedFilenames) = 2
    /\ callArgs.categoryName = <<"M", "y", " ", "\t", "\n", "R", "u", "l", "e", "s", " ", " ", "x">>
    /\ returnedFilenames[2] = <<"m", "y", "-", "r", "u", "l", "e", "s", "-", "x", ".", "m", "d", "c">>

\* C16: for the five conventional keys the files are named code-patterns.mdc,
\* frameworks.mdc, structure.mdc, conventions.mdc and best-practices.mdc.
C16_Original ==
    \A i \in 1..Len(returnedFilenames) :
       LET key == callArgs.categoryName
           name == returnedFilenames[i]
       IN /\ key = KeyCodePatterns => name = <<"c", "o", "d", "e", "-", "p", "a", "t", "t", "e", "r", "n", "s", ".", "m", "d", "c">>
          /\ key = KeyFrameworks => name = <<"f", "r", "a", "m", "e", "w", "o", "r", "k", "s", ".", "m", "d", "c">>
          /\ key = KeyStructure => name = <<"s", "t", "r", "u", "c", "t", "u", "r", "e", ".", "m", "d", "c">>
          /\ key = KeyConventions => name = <<"c", "o", "n", "v", "e", "n", "t", "i", "o", "n", "s", ".", "m", "d", "c">>
          /\ key = KeyBestPractices => name = <<"b", "e", "s", "t", "-", "p", "r", "a", "c", "t", "i", "c", "e", "s", ".", "m", "d", "c">>

-----------------------------------------------------------------------------
(* Properties of generateRules and the CLI *)

\* the AnalysisResult generateRules awaited is a failure
AnalysisFailed == genHist.awaited /\ ~genHist.analysisResult.success

\* the awaited failure carries raw text
RawTextExists ==
    /\ genHist.analysisResult.hasRawOutput
    /\ genHist.analysisResult.rawOutput # <<>>

EntriesOf(data, key) == {i \in 1..Len(data) : data[i].key = key}

\* codePatterns with one rule whose description is the text, the four other
\* conventional categories present without rules, and no other key
WellShaped(data, text) ==
    /\ {data[i].key : i \in 1..Len(data)} =
          {KeyCodePatterns, KeyFrameworks, KeyStructure, KeyConventions, KeyBestPractices}
    /\ Len(data) = 5
    /\ \A i \in EntriesOf(data, KeyCodePatterns) :
          /\ data[i].present
          /\ Len(data[i].category.rules) = 1
          /\ data[i].category.rules[1].description = text
    /\ \A key \in {KeyFrameworks, KeyStructure, KeyConventions, KeyBestPractices} :
          \A i \in EntriesOf(data, key) :
             data[i].present /\ data[i].category.rules = <<>>

\* C12: when the analysis generateRules awaited failed and its raw output
\* holds text, writeRules is called with the well-shaped data made of that
\* text and generateRules returns what that pass returned; when it failed
\* without raw text, generateRules returns success false with the error of
\* the analysis, writeRules is not called and the directory is as it was.
C12_Fallback ==
    AnalysisFailed =>
       IF RawTextExists
       THEN /\ genPc \in {"write", "returned"}
            /\ pc[1] # "idle"
            /\ WellShaped(args[1].analysisData, genHist.analysisResult.rawOutput)
            /\ args[1].dryRun = config.dryRun
            /\ genPc = "returned" => pc[1] = "done" /\ genResult = result[1]
       ELSE /\ genPc = "returned"
            /\ pc[1] = "idle"
            /\ ~genResult.success
            /\ genResult.error = genHist.analysisResult.error
            /\ genResult.created = <<>> /\ genResult.updated = <<>>
            /\ genResult.unchanged = <<>>
            /\ dirExists = genHist.before.exists /\ dir = genHist.before.dir

\* a failed analysis with raw text has ended in a successful pass that
\* created codepatterns.mdc from the text
C12_Witness ==
    /\ AnalysisFailed /\ RawTextExists
    /\ genPc = "returned"
    /\ genResult.success
    /\ ~config.dryRun
    /\ \E i \in 1..Len(dir) :
          /\ dir[i].name = NameCodePatterns
          /\ dir[i].content =
                convertToMDC(KeyCodePatterns,
                             Category(<<"Code Patterns & Style">>,
                                      <<"Extracted from raw output">>,
                                      <<Rule(<<"Analysis Output">>,
                                             genHist.analysisResult.rawOutput)>>))

\* C13, as stated: once generateRules has called the analyzer, the prompt
\* holds the EXISTING RULES section exactly when the rules directory held
\* rule files at the call.
C13_Original ==
    genPc \in {"analyze", "write", "returned"} /\ agentCheck.installed =>
       (ruleFilesOf(genHist.before.exists, genHist.before.dir) # <<>>
           <=> "EXISTING RULES:" \in Range(prompt))

C20_WitnessThrown ==
    /\ genPc = "returned"
    /\ Threw(1)
    /\ genResult.error = hist[1].thrown

\* C24 as stated: every call of generateRules returns, also when the
\* cursor-agent processes never exit: once generateRules awaits its
\* installation check, it returns at some later time.
C24_Original == [](genPc = "check" => <>(genPc = "returned"))

\* the filenames of the conventional categories other than codePatterns
OtherCategoryFiles ==
    {generateFilename(key) :
        key \in {KeyFrameworks, KeyStructure, KeyConventions, KeyBestPractices}}

\* C29 as stated: when generateRules has returned through the raw-output
\* fallback, not in dry-run mode, every rule file of a category other than
\* codePatterns that the directory held at the call is still there.
C29_Original ==
    (/\ genPc = "returned" /\ AnalysisFailed /\ RawTextExists
     /\ ~config.dryRun /\ genResult.success)
       => \A i \in 1..Len(genHist.before.dir) :
             genHist.before.dir[i].name \in OtherCategoryFiles
                => HasFile(dir, genHist.before.dir[i].name)

-----------------------------------------------------------------------------
(* Properties of needsUpdate *)

\* the words of a text: its maximal runs of characters that are no
\* whitespace, in order
RECURSIVE WordsFrom(_, _, _)
WordsFrom(s, i, word) ==
    IF i > Len(s) THEN (IF word = <<>> THEN <<>> ELSE <<word>>)
    ELSE IF s[i] \in WS
         THEN (IF word = <<>> THEN <<>> ELSE <<word>>) \o WordsFrom(s, i + 1, <<>>)
         ELSE WordsFrom(s, i + 1, Append(word, s[i]))

Words(s) == WordsFrom(s, 1, <<>>)

\* C30: needsUpdate is a whitespace-normalized inequality.  needsUpdate(a, a)
\* is false, needsUpdate(a, b) equals needsUpdate(b, a), and needsUpdate(a, b)
\* is false exactly when a and b hold the same words in the same order, that
\* is when they differ at most in the length and kind of their whitespace
\* runs and in leading and trailing whitespace; a category file whose
\* rendering differs from the snapshot in this way only is classified
\* unchanged, the branch that does not write.
C30_NeedsUpdate ==
    LET a == contents.existingContent
        b == contents.newContent
    IN /\ compared.called
          => /\ compared.aa = FALSE /\ compared.bb = FALSE
             /\ compared.ab = compared.ba
             /\ compared.ab = (Words(a) # Words(b))
       /\ classified # "none"
          => /\ classified = (IF Words(a) = Words(b) THEN "unchanged" ELSE "updated")

\* two renderings that differ in the length of a whitespace run and are not
\* equal as strings: no update needed, the file is classified unchanged
C30_Witness ==
    /\ contents.existingContent = convertToMDC(KeyA, CatXSpaced)
    /\ contents.newContent = convertToMDC(KeyA, CatX)
    /\ contents.existingContent # contents.newContent
    /\ compared.called /\ compared.ab = FALSE
    /\ classified = "unchanged"

====
